---- MODULE Spec2Model ----
(***************************************************************************)
(* Credential pool of opencode-anthropic-multi-auth: the account store     *)
(* (storage.ts), quota-aware selection (quota.ts), the refresh pass        *)
(* (oauth.ts) and the AccountManager failover state machine (accounts.ts). *)
(*                                                                         *)
(* Indexes are 0-based as in the source; a TLA+ sequence holds account i   *)
(* at position i + 1.  Time is counted in clock ticks; every Date.now()    *)
(* read of a handler is a value of the clock, which may advance between    *)
(* two reads of the same handler.                                          *)
(***************************************************************************)
EXTENDS Integers, Sequences, FiniteSets, TLC

VARIABLES
    sel,        \* SpecSelect: the last selectBestAccount call (inputs, trace, result)
    now,        \* Spec: the wall clock, Date.now()
    file,       \* Spec: the persisted document at the store location
    mgr,        \* Spec: the AccountManager object (accounts, activeIndex)
    last,       \* Spec: what the last operation did and returned
    ops,        \* Spec: how many operations have run
    disk,       \* SpecSave: the directory (path -> file) and the files
    writers,    \* SpecSave: each process's position inside saveAccounts
    reader,     \* SpecSave: a process's position inside loadAccounts
    io,         \* SpecStore: one call of a store function (input, result)
    pass,       \* SpecRefresh: one refresh pass, account by account
    flights,    \* SpecFlight: the requests in flight on the pool
    stream      \* SpecStream: one streamed response passing the wrapper

vars == <<sel, now, file, mgr, last, ops, disk, writers, reader, io, pass, flights,
          stream>>

(***************************************************************************)
(* Data                                                                    *)
(***************************************************************************)

\* An optional field that is absent (undefined).
None == -1

IsNumber(x) == x # None

\* accounts[index] of the source.
At(accounts, index) == accounts[index + 1]

Indexes(accounts) == {i - 1 : i \in 1..Len(accounts)}

IndexSeq(accounts) == [i \in 1..Len(accounts) |-> i - 1]

\* Eligible: not disabled (enabled defaults to true) and not in a cool-down
\* that is still in the future.
Eligible(account, t) ==
    /\ account.enabled # "false"
    /\ (account.rateLimitedUntil = None \/ account.rateLimitedUntil <= t)

(***************************************************************************)
(* Quota probe and selection (quota.ts)                                    *)
(***************************************************************************)

\* The value fetchQuota hands back when it has no data (null).
\* raised tells a call that threw instead of returning.
NullQuota == [null |-> TRUE, raised |-> FALSE, five_hour |-> None, seven_day |-> None]

\* fetchQuota, what throws inside its try block: "network_error" and
\* "timeout" (the abort of the controller) reject the fetch; "malformed" is
\* a 2xx whose body is no JSON, so response.json() throws.
probeThrows(response) ==
    response.status \in {"network_error", "timeout", "malformed"}

fetchQuota_noCatch(accessToken, response) ==
    IF probeThrows(response)
    THEN [NullQuota EXCEPT !.raised = TRUE]
    ELSE IF response.status = "http_error"
    THEN NullQuota
    ELSE [null |-> FALSE, raised |-> FALSE, five_hour |-> response.five_hour,
          seven_day |-> response.seven_day]

\* fetchQuota: response is what the usage endpoint did with the request.
\* A throw inside the try block is caught and answered by null; status
\* "http_error" is a non-2xx status (!response.ok); "ok" is a 2xx with a
\* JSON body, which is returned as it was parsed.
fetchQuota(accessToken, response) ==
    IF probeThrows(response)
    THEN NullQuota
    ELSE IF response.status = "http_error"
    THEN NullQuota
    ELSE [null |-> FALSE, raised |-> FALSE, five_hour |-> response.five_hour,
          seven_day |-> response.seven_day]

getUtilization_sevenDayFirst(quota) ==
    IF IsNumber(quota.seven_day) THEN quota.seven_day
    ELSE IF IsNumber(quota.five_hour) THEN quota.five_hour
    ELSE None

getUtilization(quota) ==
    IF IsNumber(quota.five_hour) THEN quota.five_hour
    ELSE IF IsNumber(quota.seven_day) THEN quota.seven_day
    ELSE None

\* The loop of selectBestAccount that collects eligibleIndexes, in list order.
eligibleIndexes_ignoreRateLimit(accounts, t) ==
    SelectSeq(IndexSeq(accounts), LAMBDA i : At(accounts, i).enabled # "false")

eligibleIndexes(accounts, t) ==
    SelectSeq(IndexSeq(accounts),
              LAMBDA i : /\ At(accounts, i).enabled # "false"
                         /\ ~(/\ IsNumber(At(accounts, i).rateLimitedUntil)
                              /\ At(accounts, i).rateLimitedUntil > t))

NullCheck == [null |-> TRUE, index |-> None, utilization |-> None]

probedIndexes_all(accounts, eligible) == IndexSeq(accounts)

\* The fetchQuota calls of one pass, in order: one for each element of
\* eligibleIndexes whose account has an access secret.
probedIndexes(accounts, eligible) ==
    SelectSeq(eligible, LAMBDA i : IsNumber(At(accounts, i).access))

\* What each fetchQuota call of the pass was asked and gave.
probes(accounts, responses, eligible) ==
    LET probed == probedIndexes(accounts, eligible)
    IN  [k \in 1..Len(probed) |->
            [index |-> probed[k],
             quota |-> fetchQuota(At(accounts, probed[k]).access,
                                  At(responses, probed[k]))]]

\* One element of the Promise.allSettled list: the probe of one eligible
\* account; a rejected one is dropped like a null one.
checkAccount(accounts, responses, index) ==
    LET account == At(accounts, index)
        quota == fetchQuota(account.access, At(responses, index))
    IN  IF ~IsNumber(account.access) THEN NullCheck
        ELSE IF quota.raised THEN NullCheck
        ELSE IF quota.null THEN NullCheck
        ELSE IF getUtilization(quota) = None THEN NullCheck
        ELSE [null |-> FALSE, index |-> index, utilization |-> getUtilization(quota)]

\* The fulfilled, non-null results, in the order of eligibleIndexes.
successfulChecks(accounts, responses, eligible) ==
    SelectSeq([k \in 1..Len(eligible) |-> checkAccount(accounts, responses, eligible[k])],
              LAMBDA c : ~c.null)

\* The comparator of successful.sort: negative, zero or positive.  With both
\* lastUsed absent it computes -Infinity - -Infinity = NaN, which sort reads as 0.
compareSuccessful_noTieBreak(accounts, a, b) ==
    a.utilization - b.utilization

compareSuccessful(accounts, a, b) ==
    IF a.utilization # b.utilization
    THEN a.utilization - b.utilization
    ELSE LET aLastUsed == At(accounts, a.index).lastUsed
             bLastUsed == At(accounts, b.index).lastUsed
         IN  IF ~IsNumber(aLastUsed) /\ ~IsNumber(bLastUsed) THEN 0
             ELSE IF ~IsNumber(aLastUsed) THEN -1
             ELSE IF ~IsNumber(bLastUsed) THEN 1
             ELSE aLastUsed - bLastUsed

\* Array.prototype.sort is stable: an element moves left only past elements
\* the comparator puts strictly after it.
RECURSIVE InsertSorted(_, _, _)
InsertSorted(accounts, sorted, x) ==
    IF sorted = <<>>
    THEN <<x>>
    ELSE IF compareSuccessful(accounts, sorted[Len(sorted)], x) > 0
         THEN Append(InsertSorted(accounts, SubSeq(sorted, 1, Len(sorted) - 1), x),
                     sorted[Len(sorted)])
         ELSE Append(sorted, x)

RECURSIVE sortSuccessful(_, _)
sortSuccessful(accounts, s) ==
    IF s = <<>>
    THEN <<>>
    ELSE InsertSorted(accounts,
                      sortSuccessful(accounts, SubSeq(s, 1, Len(s) - 1)),
                      s[Len(s)])

\* The loop of pickRoundRobinIndex; oldest = None stands for +Infinity, and
\* an absent lastUsed reads as +Infinity too.
RECURSIVE oldestLoop(_, _, _, _, _)
oldestLoop(accounts, eligible, k, selected, oldest) ==
    IF k > Len(eligible)
    THEN selected
    ELSE LET lastUsed == At(accounts, eligible[k]).lastUsed
             less == /\ IsNumber(lastUsed)
                     /\ (~IsNumber(oldest) \/ lastUsed < oldest)
         IN  IF less
             THEN oldestLoop(accounts, eligible, k + 1, eligible[k], lastUsed)
             ELSE oldestLoop(accounts, eligible, k + 1, selected, oldest)

pickRoundRobinIndex_firstEligible(accounts, eligible) ==
    IF eligible = <<>> THEN 0 ELSE eligible[1]

pickRoundRobinIndex(accounts, eligible) ==
    LET unused == SelectSeq(eligible, LAMBDA i : ~IsNumber(At(accounts, i).lastUsed))
    IN  IF unused # <<>>
        THEN unused[1]
        ELSE oldestLoop(accounts, eligible, 1,
                        IF eligible = <<>> THEN 0 ELSE eligible[1], None)

\* selectBestAccount from "const now = Date.now()" on, over the accounts the
\* refresh pass returned (the accounts themselves when no storagePath is given).
selectBestAccount(refreshedAccounts, responses, t) ==
    IF Len(refreshedAccounts) = 0
    THEN 0
    ELSE LET eligible == eligibleIndexes(refreshedAccounts, t)
             successful == successfulChecks(refreshedAccounts, responses, eligible)
         IN  IF eligible = <<>>
             THEN 0
             ELSE IF successful # <<>>
                  THEN sortSuccessful(refreshedAccounts, successful)[1].index
                  ELSE pickRoundRobinIndex(refreshedAccounts, eligible)

(***************************************************************************)
(* Account store (storage.ts)                                              *)
(***************************************************************************)

Min(a, b) == IF a < b THEN a ELSE b

Max(a, b) == IF a > b THEN a ELSE b

DefaultStorage == [version |-> 1, accounts |-> <<>>, activeIndex |-> 0]

\* The store location holds no file.
NoFile == [exists |-> FALSE, data |-> DefaultStorage]

\* normalizeStorage, the activeIndex part: clamp into the list, 0 when empty.
clampActiveIndex_unclamped(rawActiveIndex, length) == rawActiveIndex

clampActiveIndex(rawActiveIndex, length) ==
    IF length = 0
    THEN 0
    ELSE Min(Max(0, rawActiveIndex), Max(0, length - 1))

normalizeAccount_keepsStale(account, t) ==
    [account EXCEPT
        !.enabled = IF @ = "undefined" THEN "true" ELSE @,
        !.addedAt = IF IsNumber(@) THEN @ ELSE t]

\* normalizeStorage, the per-account part, with Date.now() = t.
normalizeAccount(account, t) ==
    [account EXCEPT
        !.enabled = IF @ = "undefined" THEN "true" ELSE @,
        !.addedAt = IF IsNumber(@) THEN @ ELSE t,
        !.rateLimitedUntil = IF IsNumber(@) /\ @ < t THEN None ELSE @]

normalizeStorage(input, t) ==
    [version |-> 1,
     accounts |-> [i \in 1..Len(input.accounts) |->
                      normalizeAccount(input.accounts[i], t)],
     activeIndex |-> clampActiveIndex(input.activeIndex, Len(input.accounts))]

loadAccounts(f, t) ==
    IF ~f.exists THEN DefaultStorage ELSE normalizeStorage(f.data, t)

\* saveAccounts as one step: the file after the rename.
saveAccounts(data, t) == [exists |-> TRUE, data |-> normalizeStorage(data, t)]

\* addAccount: the document it saves.
addAccount(f, account, t) ==
    LET data == loadAccounts(f, t)
    IN  saveAccounts([data EXCEPT !.accounts = Append(@, account)], t)

RemoveAt(s, index) ==
    [k \in 1..(Len(s) - 1) |-> IF k <= index THEN s[k] ELSE s[k + 1]]

removeAccount_noShift(f, index, t) ==
    LET data == loadAccounts(f, t)
        accounts == RemoveAt(data.accounts, index)
    IN  IF index < 0 \/ index >= Len(data.accounts)
        THEN f
        ELSE saveAccounts([version |-> 1, accounts |-> accounts,
                           activeIndex |-> data.activeIndex], t)

\* removeAccount: the file it leaves.
removeAccount(f, index, t) ==
    LET data == loadAccounts(f, t)
        accounts == RemoveAt(data.accounts, index)
        activeIndex ==
            IF Len(accounts) = 0 THEN 0
            ELSE IF index < data.activeIndex THEN data.activeIndex - 1
            ELSE IF data.activeIndex >= Len(accounts) THEN Len(accounts) - 1
            ELSE data.activeIndex
    IN  IF index < 0 \/ index >= Len(data.accounts)
        THEN f
        ELSE saveAccounts([version |-> 1, accounts |-> accounts,
                           activeIndex |-> activeIndex], t)

(***************************************************************************)
(* Refresh pass (oauth.ts)                                                 *)
(***************************************************************************)

\* refreshBefore = Date.now() + 60_000: one clock tick is 60 s.
RefreshHorizon == 1

\* expires_in of a token grant, in clock ticks.
TokenLifetime == 1

\* Refresh secrets are numbered; a grant issues the next number.
MaxToken == 2

shouldRefresh(account, t) ==
    ~IsNumber(account.expires) \/ account.expires < t + RefreshHorizon

\* refreshToken(account.refresh): what the token endpoint answers, a grant of
\* the next refresh secret with its access secret, or a refusal (it throws).
tokenGrant(account, outcome, t) ==
    IF outcome = "ok"
    THEN [status |-> "ok", refresh |-> account.refresh + 1,
          access |-> account.refresh + 1, expires |-> t + TokenLifetime]
    ELSE [status |-> "fail", refresh |-> None, access |-> None, expires |-> None]

NoGrant == [status |-> "none", refresh |-> None, access |-> None, expires |-> None]

refreshOne_clearsOnFailure(account, grant) ==
    [account EXCEPT !.refresh = IF grant.status = "ok" THEN grant.refresh ELSE @,
                    !.access = grant.access,
                    !.expires = grant.expires]

\* refreshAllAccounts, the try block of one due account: the three secrets
\* are assigned after refreshToken returned; a throw leaves the copy as it was.
refreshOne(account, grant) ==
    IF grant.status = "ok"
    THEN [account EXCEPT !.refresh = grant.refresh,
                         !.access = grant.access,
                         !.expires = grant.expires]
    ELSE account

storeSecrets_intoInput(p, k, account) ==
    [p EXCEPT !.updated[k] = account, !.accounts[k] = account]

\* refreshAllAccounts: updated holds a spread copy of every account, so the
\* assignments of the try block reach the copy and not the object handed in.
storeSecrets(p, k, account) ==
    [p EXCEPT !.updated[k] = account]

\* refreshAllAccounts: the updated copies.  outcomes[i] tells whether the
\* token endpoint grants ("ok") or refuses the refresh of account i - 1.
refreshedCopies(accounts, outcomes, t) ==
    [i \in 1..Len(accounts) |->
        IF shouldRefresh(accounts[i], t)
        THEN refreshOne(accounts[i], tokenGrant(accounts[i], outcomes[i], t))
        ELSE accounts[i]]

\* refreshAllAccounts: the document it saves once after the loop.
refreshAllAccounts(accounts, activeIndex, outcomes, t) ==
    saveAccounts([version |-> 1,
                  accounts |-> refreshedCopies(accounts, outcomes, t),
                  activeIndex |-> activeIndex], t)

(***************************************************************************)
(* AccountManager (accounts.ts)                                            *)
(***************************************************************************)

NoManager ==
    [exists |-> FALSE, accounts |-> <<>>, activeIndex |-> 0, storagePath |-> "default"]

normalizeActiveIndex(accounts, index) ==
    IF Len(accounts) = 0
    THEN 0
    ELSE Min(Max(0, index), Len(accounts) - 1)

\* getActive: whether this.accounts[this.activeIndex] is an account.
hasActive(m) == m.activeIndex \in Indexes(m.accounts)

getAvailableIndexes_all(accounts, t) == Indexes(accounts)

getAvailableIndexes_untilReload(accounts, t) ==
    {i \in Indexes(accounts) :
        /\ At(accounts, i).enabled # "false"
        /\ ~IsNumber(At(accounts, i).rateLimitedUntil)}

getAvailableIndexes(accounts, t) ==
    {i \in Indexes(accounts) :
        /\ At(accounts, i).enabled # "false"
        /\ ~(/\ IsNumber(At(accounts, i).rateLimitedUntil)
             /\ At(accounts, i).rateLimitedUntil > t)}

persist(m, t) ==
    saveAccounts([version |-> 1, accounts |-> m.accounts,
                  activeIndex |-> normalizeActiveIndex(m.accounts, m.activeIndex)], t)

\* getShortestWait: the least rateLimitedUntil - now over the accounts whose
\* cool-down is in the future, null (None) without one.
\* getShortestWait, the loop from account k on: shortest is None while it
\* is Number.POSITIVE_INFINITY.
RECURSIVE shortestLoop(_, _, _, _)
shortestLoop(accounts, k, shortest, t) ==
    IF k > Len(accounts)
    THEN shortest
    ELSE LET until == accounts[k].rateLimitedUntil
         IN  IF ~IsNumber(until) \/ until <= t
             THEN shortestLoop(accounts, k + 1, shortest, t)
             ELSE shortestLoop(accounts, k + 1,
                               IF shortest = None THEN until - t
                               ELSE Min(shortest, until - t), t)

getShortestWait_lastFound(accounts, t) ==
    LET future == {i \in Indexes(accounts) :
                      /\ IsNumber(At(accounts, i).rateLimitedUntil)
                      /\ At(accounts, i).rateLimitedUntil > t}
    IN  IF future = {} THEN None
        ELSE At(accounts, CHOOSE i \in future : \A j \in future : j <= i).rateLimitedUntil - t

\* getShortestWait: Number.isFinite(shortest) ? shortest : null
getShortestWait(accounts, t) == shortestLoop(accounts, 1, None, t)

markUsed_advances(m, t) ==
    IF hasActive(m)
    THEN [m EXCEPT !.accounts[m.activeIndex + 1].lastUsed = t,
                   !.activeIndex = (m.activeIndex + 1) % Len(m.accounts)]
    ELSE m

\* markUsed: the manager after it (the persist is the caller's).
markUsed(m, t) ==
    IF hasActive(m)
    THEN [m EXCEPT !.accounts[m.activeIndex + 1].lastUsed = t]
    ELSE m

\* What the last operation did, NoOp after an operation nothing is recorded
\* of.  For handleRateLimit (also inside a request): claimed is now +
\* retryAfterMs at the call, marked whether there was an active account to
\* mark, active0 the activeIndex before the call, others0 the other accounts
\* eligible at the call, eligible1 the accounts eligible when the available
\* indexes were recomputed, ret the index of the account returned (None for
\* null).  For markUsed and getShortestWait: active0 is the activeIndex
\* before the call.  For init: ret is the index selection returned, refreshed whether
\* the refresh pass ran.  For a request: calls counts the upstream calls,
\* statuses and tokens are their answers and access secrets, stale whether
\* the secret of each call was missing or expired when sent, outcome tells
\* how the request ended, wait is the wait the exhaustion error carries.
\* available is what getAvailableIndexes() gave inside handleRateLimit and
\* t1 the clock it read.  For init and handleRateLimit: granted are the
\* indexes whose refresh grant succeeded in the refresh pass of the call,
\* updated the copies that pass returned.  For a session start: picked
\* lists the activeIndex of every session start so far.
NoOp ==
    [op |-> "none", claimed |-> 0, marked |-> FALSE, active0 |-> 0, others0 |-> {},
     eligible1 |-> {}, ret |-> None, refreshed |-> FALSE, calls |-> 0,
     statuses |-> <<>>, tokens |-> <<>>, stale |-> <<>>, outcome |-> "none",
     wait |-> None, available |-> {}, t1 |-> 0, granted |-> {}, updated |-> <<>>,
     picked |-> <<>>]

(***************************************************************************)
(* The store location on disk (storage.ts, node:fs)                        *)
(***************************************************************************)

\* The clock stops here.
MaxTime == 2

\* Processes that save to the same store location; process.pid is 1..MaxProcs.
MaxProcs == 2

\* saveAccounts calls of one process.
MaxSaves == 2

\* write(2) calls writeFileSync needs for one document.
DocChunks == 2

\* loadAccounts calls of the reading process.
MaxLoads == 1

Pids == 1..MaxProcs

\* resolveStoragePath(storagePath)
FinalPath == <<"final", 0, 0>>

NoPath == <<"none", 0, 0>>

tempPath_sharedPid(pid, t) == <<"tmp", 1, t>>

\* `${finalPath}.${process.pid}.${Date.now()}.tmp`
tempPath(pid, t) == <<"tmp", pid, t>>

Paths == {FinalPath} \cup {<<"tmp", pid, t>> : pid \in Pids, t \in 0..MaxTime}

\* The k-th saveAccounts call of process pid; 0 is a save that ended before
\* the run. A file created by a save is named after it.
SaveId(pid, k) == (pid - 1) * MaxSaves + k

SaveIds == 0..(MaxProcs * MaxSaves)

\* content of one save, as the chunks writeFileSync hands to write(2).
Document(save) == [k \in 1..DocChunks |-> <<save, k>>]

IsDocument(content) == \E save \in SaveIds : content = Document(save)

\* Bytes no write has filled.
Hole == <<None, 0>>

\* write(2) of one chunk at chunk offset k - 1 of a file.
WriteAt(content, k, chunk) ==
    [i \in 1..Max(Len(content), k) |->
        IF i = k THEN chunk
        ELSE IF i <= Len(content) THEN content[i] ELSE Hole]

NoInode == [content |-> <<>>, mode |-> "none"]

NoDisk == [dir |-> [path \in Paths |-> None], inodes |-> [id \in SaveIds |-> NoInode]]

\* The store location holds the document of an earlier save.
PriorDisk(mode) ==
    [dir |-> [path \in Paths |-> IF path = FinalPath THEN 0 ELSE None],
     inodes |-> [id \in SaveIds |->
                    IF id = 0 THEN [content |-> Document(0), mode |-> mode]
                    ELSE NoInode]]

IdleWriter == [pc |-> "idle", saves |-> 0, fd |-> None, tempPath |-> NoPath, written |-> 0]

IdleWriters == [pid \in Pids |-> IdleWriter]

IdleReader == [pc |-> "idle", loads |-> 0, fd |-> None, seen |-> <<>>, result |-> "none"]

(***************************************************************************)
(* The store file as text (JSON.stringify / JSON.parse in storage.ts)      *)
(***************************************************************************)

\* Longest account list of a stored document handed to a store function.
MaxStoreAccounts == 3

\* Date.now() during a call of a store function.
StoreNow == 1

\* The properties of a StoredAccount, in the order they are written.
AccountKeys ==
    <<"refresh", "access", "expires", "addedAt", "lastUsed", "rateLimitedUntil",
      "enabled">>

JsonNumber(n) == [type |-> "number", n |-> n, b |-> "undefined"]

JsonBoolean(b) == [type |-> "boolean", n |-> 0, b |-> b]

\* A property that JSON.stringify writes: not undefined.
IsDefined(account, key) ==
    IF key = "enabled" THEN account[key] # "undefined" ELSE account[key] # None

stringifyAccount_writesZero(account) ==
    [k \in 1..Len(AccountKeys) |->
        [key |-> AccountKeys[k],
         value |-> IF AccountKeys[k] = "enabled"
                   THEN JsonBoolean(account[AccountKeys[k]])
                   ELSE JsonNumber(Max(0, account[AccountKeys[k]]))]]

\* JSON.stringify of one account: its defined properties as members.
stringifyAccount(account) ==
    LET keys == SelectSeq(AccountKeys, LAMBDA key : IsDefined(account, key))
    IN  [k \in 1..Len(keys) |->
            [key |-> keys[k],
             value |-> IF keys[k] = "enabled" THEN JsonBoolean(account[keys[k]])
                       ELSE JsonNumber(account[keys[k]])]]

\* JSON.parse of one account: a property without a member reads undefined.
parseAccount(members) ==
    [key \in {AccountKeys[k] : k \in DOMAIN AccountKeys} |->
        IF \E k \in DOMAIN members : members[k].key = key
        THEN LET m == members[CHOOSE k \in DOMAIN members : members[k].key = key]
             IN  IF m.value.type = "boolean" THEN m.value.b ELSE m.value.n
        ELSE IF key = "enabled" THEN "undefined" ELSE None]

\* The text of a file: unparsable, or the JSON value it parses to.  An
\* object may lack the accounts array and a numeric activeIndex.
Text(kind, hasAccounts, accounts, activeIndex) ==
    [kind |-> kind, hasAccounts |-> hasAccounts, accounts |-> accounts,
     activeIndex |-> activeIndex]

\* `${JSON.stringify(normalized, null, 2)}\n`
stringify(data) ==
    Text("object", TRUE,
         [i \in 1..Len(data.accounts) |-> stringifyAccount(data.accounts[i])],
         data.activeIndex)

\* The candidate normalizeStorage reads from a parsed object: accounts when
\* it is an array, else []; activeIndex when it is a number, else 0.
candidate(text) ==
    [version |-> 1,
     accounts |-> IF text.hasAccounts
                  THEN [i \in 1..Len(text.accounts) |-> parseAccount(text.accounts[i])]
                  ELSE <<>>,
     activeIndex |-> IF text.activeIndex = None THEN 0 ELSE text.activeIndex]

\* loadAccounts: the default storage without a file; JSON.parse throws on
\* unparsable text; normalizeStorage answers the default storage to a value
\* that is not an object and reads what it can from an object.
parseAndNormalize(text, t) ==
    IF text.kind = "missing"
    THEN [raised |-> FALSE, data |-> DefaultStorage]
    ELSE IF text.kind = "unparsable"
    THEN [raised |-> TRUE, data |-> DefaultStorage]
    ELSE IF text.kind \in {"null", "number"}
    THEN [raised |-> FALSE, data |-> DefaultStorage]
    ELSE [raised |-> FALSE, data |-> normalizeStorage(candidate(text), t)]

\* saveAccounts, then loadAccounts of the file it wrote, with the clock at t.
saveThenLoad(data, t) == parseAndNormalize(stringify(normalizeStorage(data, t)), t)

\* One call of a store function: the text of the file before it and the
\* document it parses to, the operation and its index argument, and what
\* it returned (again: what a second save and load returned).
NoCall ==
    [op |-> "none", text |-> Text("missing", FALSE, <<>>, None),
     doc |-> DefaultStorage, t |-> StoreNow, index |-> 0, raised |-> FALSE,
     out |-> DefaultStorage, again |-> DefaultStorage]

\* One refresh pass: the account objects handed in, their values at the
\* call (given), the copies, the grant asked for each account, the loop
\* index, the clock at the start, the saves so far, the accounts whose
\* quota probe is in flight and those whose probe the timer aborted.
NoPass ==
    [pc |-> "idle", accounts |-> <<>>, given |-> <<>>, updated |-> <<>>,
     grants |-> <<>>, i |-> 0, t0 |-> 0, activeIndex |-> 0, saves |-> 0,
     pending |-> {}, aborted |-> {}]

\* No request is in flight.
NoFlights == <<>>

\* No response is being streamed.
NoStream == [text |-> <<>>, body |-> <<>>, carry |-> <<>>, out |-> <<>>, closed |-> FALSE]

(***************************************************************************)
(* SpecSelect: selectBestAccount(accounts) applied to bounded inputs       *)
(***************************************************************************)

\* Longest account list handed to selectBestAccount.
MaxSelAccounts == 2

\* Date.now() during the call.
SelNow == 1

Account(refresh, access, expires, lastUsed, rateLimitedUntil, enabled) ==
    [refresh |-> refresh, access |-> access, expires |-> expires, addedAt |-> 0,
     lastUsed |-> lastUsed, rateLimitedUntil |-> rateLimitedUntil,
     enabled |-> enabled]

\* enabled and cool-down of an input account: eligible (no cool-down, or one
\* that ends exactly now, enabled left out), rate-limited into the future,
\* disabled.
SelStanding ==
    {<<"true", None>>, <<"true", SelNow>>, <<"undefined", None>>,
     <<"true", SelNow + 1>>, <<"false", None>>}

SelAccounts ==
    {Account(1, access, None, lastUsed, st[2], st[1]) :
        access \in {None, 1}, lastUsed \in {None, 0, SelNow}, st \in SelStanding}

Response(status, five_hour, seven_day) ==
    [status |-> status, five_hour |-> five_hour, seven_day |-> seven_day]

\* What the usage endpoint answers: both windows, one window, no window, a failure.
SelBodies ==
    {Response("ok", 10, 20), Response("ok", 20, 10), Response("ok", None, 10),
     Response("ok", None, 20), Response("ok", 10, None), Response("ok", None, None)}

NoResponse == Response("network_error", None, None)

\* The probes that give no body: the fetch rejects, the timeout aborts it,
\* the status is not 2xx, the body is no JSON.
SelFailures ==
    {Response(status, None, None) :
        status \in {"network_error", "timeout", "http_error", "malformed"}}

SelResponses == SelBodies \cup SelFailures

\* An account and the answer to its probe; an account without access is not probed.
SelInputs ==
    {in \in SelAccounts \X SelResponses : ~IsNumber(in[1].access) => in[2] = NoResponse}

\* The inputs of a call that has not run yet.
SelInput(accounts, responses) ==
    [called |-> FALSE, accounts |-> accounts, responses |-> responses,
     now |-> SelNow, probes |-> <<>>, successful |-> <<>>, result |-> None]

NoSel == SelInput(<<>>, <<>>)

InitSelect ==
    /\ \E n \in 0..MaxSelAccounts :
         \E in \in [1..n -> SelInputs] :
            sel = SelInput([i \in 1..n |-> in[i][1]], [i \in 1..n |-> in[i][2]])
    /\ now = 0
    /\ file = NoFile
    /\ mgr = NoManager
    /\ last = NoOp
    /\ ops = 0
    /\ flights = NoFlights
    /\ stream = NoStream
    /\ disk = NoDisk
    /\ writers = IdleWriters
    /\ reader = IdleReader
    /\ io = NoCall
    /\ pass = NoPass

\* One call selectBestAccount(accounts) without storagePath (no refresh pass).
SelectCall ==
    /\ ~sel.called
    /\ sel' = [sel EXCEPT
                 !.called = TRUE,
                 !.probes = probes(sel.accounts, sel.responses,
                                   eligibleIndexes(sel.accounts, sel.now)),
                 !.successful = successfulChecks(sel.accounts, sel.responses,
                                    eligibleIndexes(sel.accounts, sel.now)),
                 !.result = selectBestAccount(sel.accounts, sel.responses, sel.now)]
    /\ UNCHANGED <<now, file, mgr, last, ops, disk, writers, reader, io, pass, flights, stream>>

NextSelect == SelectCall

SpecSelect == InitSelect /\ [][NextSelect]_vars

\* selectBestAccount(accounts, storagePath) as a whole: with a storagePath the
\* refresh pass runs first, saves its copies with activeIndex 0 and hands
\* them to the ranking.  index is the result, file the store afterwards,
\* granted the indexes whose refresh grant succeeded, updated the copies
\* the pass returned.
selectBestAccountCall(f, accounts, storagePath, outcomes, responses, t) ==
    IF Len(accounts) = 0
    THEN [index |-> 0, file |-> f, refreshed |-> FALSE, granted |-> {},
          updated |-> accounts]
    ELSE IF storagePath = "given"
         THEN [index |-> selectBestAccount(refreshedCopies(accounts, outcomes, t),
                                           responses, t),
               file |-> refreshAllAccounts(accounts, 0, outcomes, t),
               refreshed |-> TRUE,
               granted |-> {i \in Indexes(accounts) :
                               /\ shouldRefresh(At(accounts, i), t)
                               /\ outcomes[i + 1] = "ok"},
               updated |-> refreshedCopies(accounts, outcomes, t)]
         ELSE [index |-> selectBestAccount(accounts, responses, t), file |-> f,
               refreshed |-> FALSE, granted |-> {}, updated |-> accounts]

(***************************************************************************)
(* Spec: the store and one AccountManager under a running clock            *)
(***************************************************************************)

\* Longest account list of the store.
MaxAccounts == 2

\* Most operations of one run.
MaxOps == 5

\* Most ticks the clock advances between two Date.now() reads of a handler.
MaxDelay == 1

Delays == 0..MaxDelay

\* retryAfterMs handed to handleRateLimit, in ticks: Number.parseFloat of the
\* retry-after header times 1000, or 60_000 without the header.
RetryAfterValues == <<0, 1, -1>>

\* What the usage endpoint answers to a probe of the pool.
PoolResponses == {NoResponse, Response("ok", 10, 20), Response("ok", 20, 10)}

\* The answers to the probes of one selection: only an eligible account with
\* an access secret is probed.
ProbeResponses(accounts, t) ==
    {r \in [1..Len(accounts) -> PoolResponses] :
        \A i \in 1..Len(accounts) :
            r[i] # NoResponse =>
                /\ IsNumber(accounts[i].access)
                /\ Eligible(accounts[i], t)}

\* Answers of the token endpoint to the refresh of each account: a refresh
\* is asked for with a storagePath only, and only for an account that is due;
\* the refresh secrets numbered up to MaxToken are all the endpoint issues.
RefreshOutcomes(accounts, storagePath, t) ==
    {o \in [1..Len(accounts) -> {"ok", "fail"}] :
        \A i \in 1..Len(accounts) :
            o[i] = "ok" => /\ storagePath = "given"
                           /\ shouldRefresh(accounts[i], t)
                           /\ accounts[i].refresh < MaxToken}

\* Every way one selectBestAccount call can go at clock t, over the answers
\* of the token endpoint and of the usage endpoint.
SelectCalls(f, accounts, storagePath, t) ==
    {selectBestAccountCall(f, accounts, storagePath, outcomes, responses, t) :
        outcomes \in RefreshOutcomes(accounts, storagePath, t),
        responses \in ProbeResponses(accounts, t)}

\* An account as the login flow or the auth.json import hands it to
\* addAccount: with tokens that expire at TokenLifetime, or without tokens.
NewAccounts ==
    {Account(1, 1, TokenLifetime, None, None, enabled) : enabled \in {"true", "false"}}
        \cup {Account(1, None, None, None, None, "true")}

Init ==
    /\ sel = NoSel
    /\ now = 0
    /\ file = NoFile
    /\ mgr = NoManager
    /\ last = NoOp
    /\ ops = 0
    /\ flights = NoFlights
    /\ stream = NoStream
    /\ disk = NoDisk
    /\ writers = IdleWriters
    /\ reader = IdleReader
    /\ io = NoCall
    /\ pass = NoPass

\* One more operation has run; a run holds at most MaxOps of them.
Ran ==
    /\ ops < MaxOps
    /\ ops' = ops + 1

Tick ==
    /\ now < MaxTime
    /\ now' = now + 1
    /\ last' = NoOp
    /\ UNCHANGED <<sel, file, mgr, ops, disk, writers, reader, io, pass, flights, stream>>

\* addAccount(account, storagePath)
AddAccount ==
    /\ Len(loadAccounts(file, now).accounts) < MaxAccounts
    /\ \E account \in NewAccounts :
          file' = addAccount(file, account, now)
    /\ last' = NoOp
    /\ Ran
    /\ UNCHANGED <<sel, now, mgr, disk, writers, reader, io, pass, flights, stream>>

\* removeAccount(index, storagePath)
RemoveAccount ==
    /\ \E index \in -1..MaxAccounts :
          file' = removeAccount(file, index, now)
    /\ last' = NoOp
    /\ Ran
    /\ UNCHANGED <<sel, now, mgr, disk, writers, reader, io, pass, flights, stream>>

\* saveAccounts(data, storagePath) of a document whose activeIndex the caller set
SaveAccounts ==
    /\ \E rawActiveIndex \in -1..(MaxAccounts + 1) :
          file' = saveAccounts([loadAccounts(file, now) EXCEPT
                                   !.activeIndex = rawActiveIndex], now)
    /\ last' = NoOp
    /\ Ran
    /\ UNCHANGED <<sel, now, mgr, disk, writers, reader, io, pass, flights, stream>>

\* AccountManager.init(storagePath): load, select, construct, persist.  The
\* clock may advance by d while the selection waits for its probes.
ManagerInit ==
    \E storagePath \in {"default", "given"}, d \in Delays :
      LET data == loadAccounts(file, now)
          t1 == now + d
      IN  /\ t1 <= MaxTime
          /\ \E call \in SelectCalls(file, data.accounts, storagePath, now) :
                LET manager == [exists |-> TRUE, accounts |-> data.accounts,
                                activeIndex |->
                                    normalizeActiveIndex(data.accounts, call.index),
                                storagePath |-> storagePath]
                IN  /\ mgr' = manager
                    /\ file' = persist(manager, t1)
                    /\ last' = [NoOp EXCEPT !.op = "init", !.ret = call.index,
                                            !.refreshed = call.refreshed,
                                            !.granted = call.granted,
                                            !.updated = call.updated]
          /\ now' = t1
          /\ Ran
          /\ UNCHANGED <<sel, disk, writers, reader, io, pass, flights, stream>>

\* markUsed()
MarkUsed ==
    /\ mgr.exists
    /\ mgr' = markUsed(mgr, now)
    /\ IF hasActive(mgr)
       THEN file' = persist(mgr', now)
       ELSE UNCHANGED file
    /\ last' = [NoOp EXCEPT !.op = "markUsed", !.active0 = mgr.activeIndex]
    /\ Ran
    /\ UNCHANGED <<sel, now, disk, writers, reader, io, pass, flights, stream>>

\* handleRateLimit(retryAfterMs) called at clock t0 on manager m with the
\* store file f: every way it can end, as the manager, the file and the
\* clock it leaves and the record of the call.  The clock may advance by d1
\* between the mark and the recomputation of the available indexes, and by
\* d2 until selectBestAccount reads it.
handleRateLimit(m, f, t0, retryAfterMs) ==
    LET active0 == m.activeIndex
        marked == [m EXCEPT
                     !.accounts[active0 + 1].rateLimitedUntil =
                         t0 + Max(0, retryAfterMs)]
        called == [NoOp EXCEPT
                     !.op = "handleRateLimit",
                     !.claimed = t0 + retryAfterMs, !.active0 = active0]
        found(t1) == [called EXCEPT
                        !.marked = TRUE,
                        !.others0 = {i \in Indexes(m.accounts) \ {active0} :
                                        Eligible(At(m.accounts, i), t0)},
                        !.eligible1 = {i \in Indexes(marked.accounts) :
                                          Eligible(At(marked.accounts, i), t1)},
                        !.available = getAvailableIndexes(marked.accounts, t1),
                        !.t1 = t1]
        selected(t1, t2, call) ==
            IF call.index \notin getAvailableIndexes(marked.accounts, t1)
            THEN [mgr |-> marked, file |-> call.file, now |-> t2,
                  last |-> [found(t1) EXCEPT !.refreshed = call.refreshed,
                                             !.granted = call.granted,
                                             !.updated = call.updated]]
            ELSE LET switched == [marked EXCEPT !.activeIndex = call.index]
                 IN  [mgr |-> switched, file |-> persist(switched, t2), now |-> t2,
                      last |-> [found(t1) EXCEPT !.ret = call.index,
                                                 !.refreshed = call.refreshed,
                                                 !.granted = call.granted,
                                                 !.updated = call.updated]]
        after(t1) ==
            IF getAvailableIndexes(marked.accounts, t1) = {}
            THEN {[mgr |-> marked, file |-> persist(marked, t1), now |-> t1,
                   last |-> found(t1)]}
            ELSE UNION {{selected(t1, t1 + d2, call) :
                            call \in SelectCalls(persist(marked, t1), marked.accounts,
                                                 m.storagePath, t1 + d2)} :
                           d2 \in {d \in Delays : t1 + d <= MaxTime}}
    IN  IF ~hasActive(m)
        THEN {[mgr |-> m, file |-> f, now |-> t0, last |-> called]}
        ELSE UNION {after(t0 + d1) : d1 \in {d \in Delays : t0 + d <= MaxTime}}

\* handleRateLimit(retryAfterMs) called on the manager directly.
HandleRateLimit ==
    /\ mgr.exists
    /\ \E k \in DOMAIN RetryAfterValues :
          \E r \in handleRateLimit(mgr, file, now, RetryAfterValues[k]) :
             /\ mgr' = r.mgr
             /\ file' = r.file
             /\ now' = r.now
             /\ last' = r.last
    /\ Ran
    /\ UNCHANGED <<sel, disk, writers, reader, io, pass, flights, stream>>

\* fetch: "!accessToken || !account.expires || account.expires < Date.now()"
needsRefresh(account, t) ==
    \/ ~IsNumber(account.access)
    \/ ~IsNumber(account.expires)
    \/ account.expires = 0
    \/ account.expires < t

\* How the refresh of an account's secrets inside fetch can go: not needed
\* ("none"), refreshToken throws ("fail"), the secrets are granted ("ok"),
\* or they are granted and saved and authClient.auth.set throws ("syncFail").
TokenOutcomes_neverRefreshes(account, t) == {"none"}

TokenOutcomes(account, t) ==
    IF ~needsRefresh(account, t)
    THEN {"none"}
    ELSE {"fail"} \cup (IF account.refresh < MaxToken THEN {"ok", "syncFail"} ELSE {})

\* fetch: the manager after the three secrets of the account at index were
\* assigned from the grant.
withRefreshed(m, index, outcome, t) ==
    IF outcome \in {"ok", "syncFail"}
    THEN [m EXCEPT !.accounts[index + 1] = refreshOne(@, tokenGrant(@, "ok", t))]
    ELSE m

\* fetch: saveAccounts({version: 1, accounts: getAllAccounts(), activeIndex:
\* getActiveIndex()}) after a refresh, else the file as it was.
savedBy(m, f, outcome, t) ==
    IF outcome \in {"ok", "syncFail"}
    THEN saveAccounts([version |-> 1, accounts |-> m.accounts,
                       activeIndex |-> m.activeIndex], t)
    ELSE f

\* What an upstream call can give: a response that is not a 429, a 429, or
\* no response (fetch throws).
UpstreamStatuses == {"ok", "limited", "threw"}

Outcome_failsOn429(status) == IF status = "ok" THEN "returned" ELSE "upstreamFailed"

\* fetch ends with the response of its last upstream call whatever its
\* status, or with the error of a call that gave no response.
Outcome(status) == IF status = "threw" THEN "upstreamFailed" ELSE "returned"

\* fetch after handleRateLimit ended as r: without a next account the
\* exhaustion error with getShortestWait(); with one, the refresh of its
\* secrets when needed and the one retry, whose response is returned.
FetchAfter429(r, token, stale) ==
    LET base == [r.last EXCEPT !.op = "fetch", !.calls = 1,
                               !.statuses = <<"limited">>, !.tokens = <<token>>,
                               !.stale = <<stale>>]
        next == r.last.ret
    IN  /\ now' = r.now
        /\ IF next = None
           THEN /\ mgr' = r.mgr
                /\ file' = r.file
                /\ last' = [base EXCEPT
                              !.outcome = "exhausted",
                              !.wait = getShortestWait(r.mgr.accounts, r.now)]
           ELSE \E o2 \in TokenOutcomes(At(r.mgr.accounts, next), r.now) :
                  LET m2 == withRefreshed(r.mgr, next, o2, r.now)
                  IN  /\ mgr' = m2
                      /\ file' = savedBy(m2, r.file, o2, r.now)
                      /\ IF o2 = "fail"
                         THEN last' = [base EXCEPT !.outcome = "refreshFailed"]
                         ELSE IF o2 = "syncFail"
                         THEN last' = [base EXCEPT !.outcome = "syncFailed"]
                         ELSE \E s2 \in UpstreamStatuses :
                                last' = [base EXCEPT
                                           !.calls = 2,
                                           !.statuses = <<"limited", s2>>,
                                           !.tokens = <<token, At(m2.accounts, next).access>>,
                                           !.stale = <<stale, needsRefresh(
                                                         At(m2.accounts, next), r.now)>>,
                                           !.outcome = Outcome(s2)]

\* The fetch of the loader (its manager is AccountManager.init() of the
\* default store location): the refresh of the active account's secrets
\* when needed, the upstream call, and on a 429 handleRateLimit with the
\* retry or the exhaustion error.
Fetch ==
    /\ mgr.exists
    /\ mgr.storagePath = "default"
    /\ LET started == [NoOp EXCEPT !.op = "fetch", !.active0 = mgr.activeIndex]
       IN  IF ~hasActive(mgr)
           THEN /\ \E s1 \in UpstreamStatuses :
                      last' = [started EXCEPT !.calls = 1, !.statuses = <<s1>>,
                                              !.tokens = <<None>>,
                                              !.stale = <<FALSE>>,
                                              !.outcome = Outcome(s1)]
                /\ UNCHANGED <<mgr, file, now>>
           ELSE \E o1 \in TokenOutcomes(At(mgr.accounts, mgr.activeIndex), now) :
                  LET m1 == withRefreshed(mgr, mgr.activeIndex, o1, now)
                      f1 == savedBy(m1, file, o1, now)
                      token == At(m1.accounts, m1.activeIndex).access
                      stale == needsRefresh(At(m1.accounts, m1.activeIndex), now)
                  IN  IF o1 \in {"fail", "syncFail"}
                      THEN /\ mgr' = m1
                           /\ file' = f1
                           /\ last' = [started EXCEPT
                                         !.outcome = IF o1 = "fail" THEN "refreshFailed"
                                                     ELSE "syncFailed"]
                           /\ UNCHANGED now
                      ELSE \E s1 \in UpstreamStatuses :
                             IF s1 # "limited"
                             THEN /\ mgr' = m1
                                  /\ file' = f1
                                  /\ last' = [started EXCEPT
                                                !.calls = 1, !.statuses = <<s1>>,
                                                !.tokens = <<token>>,
                                                !.stale = <<stale>>,
                                                !.outcome = Outcome(s1)]
                                  /\ UNCHANGED now
                             ELSE \E k \in DOMAIN RetryAfterValues :
                                    \E r \in handleRateLimit(m1, f1, now,
                                                             RetryAfterValues[k]) :
                                       FetchAfter429(r, token, stale)
    /\ Ran
    /\ UNCHANGED <<sel, disk, writers, reader, io, pass, flights, stream>>

\* getShortestWait()
GetShortestWait ==
    /\ mgr.exists
    /\ last' = [NoOp EXCEPT !.op = "getShortestWait",
                            !.active0 = mgr.activeIndex,
                            !.wait = getShortestWait(mgr.accounts, now)]
    /\ Ran
    /\ UNCHANGED <<sel, now, file, mgr, disk, writers, reader, io, pass, flights, stream>>

Next ==
    \/ Tick
    \/ AddAccount
    \/ RemoveAccount
    \/ SaveAccounts
    \/ ManagerInit
    \/ MarkUsed
    \/ HandleRateLimit
    \/ Fetch
    \/ GetShortestWait

Spec == Init /\ [][Next]_vars

(***************************************************************************)
(* SpecSave: saveAccounts and loadAccounts of several processes, one       *)
(* system call at a time                                                   *)
(***************************************************************************)

InitSave ==
    /\ sel = NoSel
    /\ now = 0
    /\ file = NoFile
    /\ mgr = NoManager
    /\ last = NoOp
    /\ ops = 0
    /\ flights = NoFlights
    /\ stream = NoStream
    /\ disk \in {NoDisk, PriorDisk("0600"), PriorDisk("0644")}
    /\ writers = IdleWriters
    /\ reader = IdleReader
    /\ io = NoCall
    /\ pass = NoPass

\* saveAccounts up to the open(2) of writeFileSync: the temp path is named
\* after process.pid and Date.now(); open creates the file with mode 0600 or
\* truncates the file the path names.
SaveOpen(pid) ==
    LET w == writers[pid]
        path == tempPath(pid, now)
        existing == disk.dir[path]
        id == IF existing = None THEN SaveId(pid, w.saves + 1) ELSE existing
    IN  /\ w.pc = "idle"
        /\ w.saves < MaxSaves
        /\ disk' = [dir |-> [disk.dir EXCEPT ![path] = id],
                    inodes |-> [disk.inodes EXCEPT ![id] =
                                   [content |-> <<>>,
                                    mode |-> IF existing = None THEN "0600"
                                             ELSE @.mode]]]
        /\ writers' = [writers EXCEPT ![pid] =
                          [pc |-> "write", saves |-> w.saves + 1, fd |-> id,
                           tempPath |-> path, written |-> 0]]
        /\ UNCHANGED <<sel, now, file, mgr, last, ops, reader, io, pass, flights, stream>>

\* One write(2) of writeFileSync, through the open descriptor; the
\* descriptor is closed after the last one.
SaveWrite(pid) ==
    LET w == writers[pid]
        k == w.written + 1
    IN  /\ w.pc = "write"
        /\ disk' = [disk EXCEPT !.inodes[w.fd].content =
                                    WriteAt(@, k, <<SaveId(pid, w.saves), k>>)]
        /\ writers' = [writers EXCEPT ![pid] =
                          [w EXCEPT !.written = k,
                                    !.pc = IF k = DocChunks THEN "rename" ELSE "write",
                                    !.fd = IF k = DocChunks THEN None ELSE @]]
        /\ UNCHANGED <<sel, now, file, mgr, last, ops, reader, io, pass, flights, stream>>

\* fs.renameSync(tempPath, finalPath): throws when tempPath names no file.
SaveRename(pid) ==
    LET w == writers[pid]
    IN  /\ w.pc = "rename"
        /\ IF disk.dir[w.tempPath] = None
           THEN /\ writers' = [writers EXCEPT ![pid] = [w EXCEPT !.pc = "idle"]]
                /\ UNCHANGED disk
           ELSE /\ disk' = [disk EXCEPT !.dir =
                               [path \in Paths |->
                                   IF path = FinalPath THEN disk.dir[w.tempPath]
                                   ELSE IF path = w.tempPath THEN None
                                   ELSE disk.dir[path]]]
                /\ writers' = [writers EXCEPT ![pid] = [w EXCEPT !.pc = "chmod"]]
        /\ UNCHANGED <<sel, now, file, mgr, last, ops, reader, io, pass, flights, stream>>

\* fs.chmodSync(finalPath, 0o600)
SaveChmod(pid) ==
    LET w == writers[pid]
    IN  /\ w.pc = "chmod"
        /\ IF disk.dir[FinalPath] = None
           THEN UNCHANGED disk
           ELSE disk' = [disk EXCEPT !.inodes[disk.dir[FinalPath]].mode = "0600"]
        /\ writers' = [writers EXCEPT ![pid] = [w EXCEPT !.pc = "idle"]]
        /\ UNCHANGED <<sel, now, file, mgr, last, ops, reader, io, pass, flights, stream>>

\* loadAccounts: fs.existsSync(finalPath); the default storage when it is
\* not there.
LoadExists ==
    /\ reader.pc \in {"idle", "done"}
    /\ reader.loads < MaxLoads
    /\ reader' = IF disk.dir[FinalPath] = None
                 THEN [pc |-> "done", loads |-> reader.loads + 1, fd |-> None,
                       seen |-> <<>>, result |-> "default"]
                 ELSE [pc |-> "open", loads |-> reader.loads + 1, fd |-> None,
                       seen |-> <<>>, result |-> "none"]
    /\ UNCHANGED <<sel, now, file, mgr, last, ops, disk, writers, io, pass, flights, stream>>

\* loadAccounts: the open(2) of fs.readFileSync(finalPath, "utf8").
LoadOpen ==
    /\ reader.pc = "open"
    /\ reader' = IF disk.dir[FinalPath] = None
                 THEN [reader EXCEPT !.pc = "done", !.result = "threw"]
                 ELSE [reader EXCEPT !.pc = "read", !.fd = disk.dir[FinalPath]]
    /\ UNCHANGED <<sel, now, file, mgr, last, ops, disk, writers, io, pass, flights, stream>>

\* loadAccounts: one read(2) of readFileSync through the open descriptor;
\* at end of file the text read is parsed.
LoadRead ==
    LET content == disk.inodes[reader.fd].content
        k == Len(reader.seen) + 1
    IN  /\ reader.pc = "read"
        /\ reader' = IF k <= Len(content)
                     THEN [reader EXCEPT !.seen = Append(@, content[k])]
                     ELSE [reader EXCEPT !.pc = "done", !.fd = None,
                                         !.result = "parsed"]
        /\ UNCHANGED <<sel, now, file, mgr, last, ops, disk, writers, io, pass, flights, stream>>

NextSave ==
    \/ Tick
    \/ \E pid \in Pids : SaveOpen(pid)
    \/ \E pid \in Pids : SaveWrite(pid)
    \/ \E pid \in Pids : SaveRename(pid)
    \/ \E pid \in Pids : SaveChmod(pid)
    \/ LoadExists
    \/ LoadOpen
    \/ LoadRead

SpecSave == InitSave /\ [][NextSave]_vars

(***************************************************************************)
(* SpecStore: loadAccounts, saveAccounts and removeAccount applied to      *)
(* bounded files                                                           *)
(***************************************************************************)

\* enabled and addedAt of a stored account: as a hand-written file leaves
\* them out, or as saveAccounts writes them.
StoreDefaults == {<<"undefined", None>>, <<"true", 0>>, <<"false", 0>>}

\* Cool-down of a stored account: none, in the past, now, in the future.
StoreCoolDowns == {None, StoreNow - 1, StoreNow, StoreNow + 1}

\* The account at 0-based position index of a stored list; its refresh
\* secret tells it from the others.
StoreAccount(index, coolDown, defaults) ==
    [Account(index, None, None, None, coolDown, defaults[1]) EXCEPT
        !.addedAt = defaults[2]]

StoreLists ==
    UNION {[1..n -> StoreCoolDowns \X StoreDefaults] : n \in 0..MaxStoreAccounts}

\* Documents: any account list, activeIndex not a number, below the list,
\* inside it or above it.
StoreDocs ==
    {[version |-> 1,
      accounts |-> [i \in 1..Len(list) |->
                       StoreAccount(i - 1, list[i][1], list[i][2])],
      activeIndex |-> activeIndex] :
        list \in StoreLists, activeIndex \in {None, -2} \cup (0..MaxStoreAccounts)}

\* No file, and files that hold no document: unparsable text, a value that
\* is not an object, an array, an object without an accounts array.
StoreOthers ==
    {Text(kind, FALSE, <<>>, None) :
        kind \in {"missing", "unparsable", "null", "number", "array", "object"}}

InitStore ==
    /\ sel = NoSel
    /\ now = 0
    /\ file = NoFile
    /\ mgr = NoManager
    /\ last = NoOp
    /\ ops = 0
    /\ flights = NoFlights
    /\ stream = NoStream
    /\ disk = NoDisk
    /\ writers = IdleWriters
    /\ reader = IdleReader
    /\ \/ \E text \in StoreOthers : io = [NoCall EXCEPT !.text = text]
       \/ \E D \in StoreDocs : io = [NoCall EXCEPT !.text = stringify(D), !.doc = D]
    /\ pass = NoPass

\* loadAccounts(storagePath)
LoadCall ==
    LET loaded == parseAndNormalize(io.text, io.t)
    IN  /\ io.op = "none"
        /\ io' = [io EXCEPT !.op = "load", !.raised = loaded.raised,
                            !.out = loaded.data]
        /\ UNCHANGED <<sel, now, file, mgr, last, ops, disk, writers, reader, pass, flights, stream>>

\* saveAccounts(D, storagePath) of a document D, then loadAccounts, and
\* both once more on what was loaded.
SaveLoadCall ==
    LET D == io.doc
        first == saveThenLoad(D, io.t)
        second == saveThenLoad(first.data, io.t)
    IN  /\ io.op = "none"
        /\ io.text.kind = "object"
        /\ io.text.hasAccounts
        /\ D.activeIndex # None
        /\ io' = [io EXCEPT !.op = "saveLoad",
                            !.raised = first.raised \/ second.raised,
                            !.out = first.data, !.again = second.data]
        /\ UNCHANGED <<sel, now, file, mgr, last, ops, disk, writers, reader, pass, flights, stream>>

\* removeAccount(index, storagePath) on a file that holds a document.
RemoveCall(index) ==
    LET D == candidate(io.text)
    IN  /\ io.op = "none"
        /\ io.text.kind = "object"
        /\ io.text.hasAccounts
        /\ io' = [io EXCEPT !.op = "remove", !.doc = D, !.index = index,
                            !.out = removeAccount([exists |-> TRUE, data |-> D],
                                                  index, io.t).data]
        /\ UNCHANGED <<sel, now, file, mgr, last, ops, disk, writers, reader, pass, flights, stream>>

NextStore ==
    \/ LoadCall
    \/ SaveLoadCall
    \/ \E index \in -1..MaxStoreAccounts : RemoveCall(index)

SpecStore == InitStore /\ [][NextStore]_vars

(***************************************************************************)
(* SpecPure: selectBestAccount called on the accounts of the store         *)
(***************************************************************************)

\* selectBestAccount(loadAccounts(storagePath).accounts, storagePath), or
\* the same without storagePath.
SelectBest ==
    /\ \E storagePath \in {"default", "given"} :
         \E call \in SelectCalls(file, loadAccounts(file, now).accounts,
                                 storagePath, now) :
            /\ file' = call.file
            /\ last' = [NoOp EXCEPT !.op = "selectBestAccount",
                                    !.ret = call.index,
                                    !.refreshed = call.refreshed]
    /\ Ran
    /\ UNCHANGED <<sel, now, mgr, disk, writers, reader, io, pass, flights, stream>>

NextPure ==
    \/ Tick
    \/ AddAccount
    \/ SaveAccounts
    \/ SelectBest

SpecPure == Init /\ [][NextPure]_vars

(***************************************************************************)
(* SpecWait: getShortestWait of a manager over bounded pools               *)
(***************************************************************************)

\* Longest account list of the manager.
MaxWaitAccounts == 3

\* Cool-downs of the pool: none, and every clock value up to one past the
\* last.
WaitCoolDowns == {None} \cup (0..(MaxTime + 1))

WaitLists ==
    UNION {[1..n -> WaitCoolDowns \X {"true", "false"}] : n \in 0..MaxWaitAccounts}

\* new AccountManager(accounts, 0)
InitWait ==
    /\ sel = NoSel
    /\ now = 0
    /\ file = NoFile
    /\ \E list \in WaitLists :
         mgr = [exists |-> TRUE,
                accounts |-> [i \in 1..Len(list) |->
                                 Account(i, i, None, None, list[i][1], list[i][2])],
                activeIndex |-> 0,
                storagePath |-> "default"]
    /\ last = NoOp
    /\ ops = 0
    /\ flights = NoFlights
    /\ stream = NoStream
    /\ disk = NoDisk
    /\ writers = IdleWriters
    /\ reader = IdleReader
    /\ io = NoCall
    /\ pass = NoPass

NextWait ==
    \/ Tick
    \/ GetShortestWait

SpecWait == InitWait /\ [][NextWait]_vars

(***************************************************************************)
(* SpecRefresh: refreshAllAccounts, one account at a time                  *)
(***************************************************************************)

\* Longest account list handed to refreshAllAccounts.
MaxPassAccounts == 3

\* expires of an account handed to the pass: absent, in the past, exactly
\* at the refresh horizon of a pass started at 0, beyond it.
PassExpires == {None, 0, RefreshHorizon, RefreshHorizon + 2}

\* The account at 0-based position index; refresh secrets are told apart
\* by tens, so that a granted one (the next number) is nobody else's.
PassAccount(index, expires) ==
    Account(10 * (index + 1), IF expires = None THEN None ELSE 10 * (index + 1),
            expires, None, None, "true")

PassLists ==
    UNION {{[i \in 1..n |-> PassAccount(i - 1, e[i])] : e \in [1..n -> PassExpires]} :
              n \in 0..MaxPassAccounts}

InitRefresh ==
    /\ sel = NoSel
    /\ now = 0
    /\ file = NoFile
    /\ mgr = NoManager
    /\ last = NoOp
    /\ ops = 0
    /\ flights = NoFlights
    /\ stream = NoStream
    /\ disk = NoDisk
    /\ writers = IdleWriters
    /\ reader = IdleReader
    /\ io = NoCall
    /\ \E accounts \in PassLists :
         \E activeIndex \in 0..Max(0, Len(accounts) - 1) :
            pass = [NoPass EXCEPT !.accounts = accounts, !.activeIndex = activeIndex]

\* refreshAllAccounts up to the loop: refreshBefore is read from the clock
\* once, the accounts are copied.
RefreshStart ==
    /\ pass.pc = "idle"
    /\ pass' = [pass EXCEPT !.pc = "loop", !.t0 = now, !.given = pass.accounts,
                            !.updated = pass.accounts,
                            !.grants = [i \in 1..Len(pass.accounts) |-> NoGrant]]
    /\ UNCHANGED <<sel, now, file, mgr, last, ops, disk, writers, reader, io, flights, stream>>

\* One iteration of the loop: an account that is not due is passed over; for
\* a due one refreshToken is awaited, and its throw is caught.
RefreshStep ==
    LET k == pass.i + 1
        account == pass.updated[k]
    IN  /\ pass.pc = "loop"
        /\ pass.i < Len(pass.updated)
        /\ IF ~shouldRefresh(account, pass.t0)
           THEN pass' = [pass EXCEPT !.i = k]
           ELSE \E outcome \in {"ok", "fail"} :
                   LET grant == tokenGrant(account, outcome, now)
                   IN  pass' = storeSecrets([pass EXCEPT !.i = k, !.grants[k] = grant],
                                            k, refreshOne(account, grant))
        /\ UNCHANGED <<sel, now, file, mgr, last, ops, disk, writers, reader, io, flights, stream>>

\* After the loop: saveAccounts of the copies, which are returned.
RefreshSave ==
    /\ pass.pc = "loop"
    /\ pass.i = Len(pass.updated)
    /\ file' = saveAccounts([version |-> 1, accounts |-> pass.updated,
                             activeIndex |-> pass.activeIndex], now)
    /\ pass' = [pass EXCEPT !.pc = "done", !.saves = @ + 1]
    /\ UNCHANGED <<sel, now, mgr, last, ops, disk, writers, reader, io, flights, stream>>

NextRefresh ==
    \/ Tick
    \/ RefreshStart
    \/ RefreshStep
    \/ RefreshSave

SpecRefresh == InitRefresh /\ [][NextRefresh]_vars

(***************************************************************************)
(* SpecLive: one selectBestAccount call, one await at a time               *)
(***************************************************************************)

\* selectBestAccount(this.accounts, this.storagePath) of a manager built on
\* any list of accounts, with a store location or without.
InitLive ==
    /\ sel = NoSel
    /\ now = 0
    /\ file = NoFile
    /\ \E accounts \in PassLists, storagePath \in {"default", "given"} :
         /\ mgr = [exists |-> TRUE, accounts |-> accounts, activeIndex |-> 0,
                   storagePath |-> storagePath]
         /\ pass = [NoPass EXCEPT !.accounts = accounts]
    /\ last = NoOp
    /\ ops = 0
    /\ flights = NoFlights
    /\ stream = NoStream
    /\ disk = NoDisk
    /\ writers = IdleWriters
    /\ reader = IdleReader
    /\ io = NoCall

\* The quota probes the call sends at once: Promise.allSettled over the
\* eligible accounts that have an access secret.
LiveProbes(accounts) ==
    {probedIndexes(accounts, eligibleIndexes(accounts, now))[k] :
        k \in 1..Len(probedIndexes(accounts, eligibleIndexes(accounts, now)))}

\* The call up to its first await: an empty list returns 0; with a
\* storagePath the refresh pass starts; without one the probes are sent.
LiveStart ==
    /\ pass.pc = "idle"
    /\ pass' = IF Len(pass.accounts) = 0
               THEN [pass EXCEPT !.pc = "done"]
               ELSE IF mgr.storagePath = "given"
               THEN [pass EXCEPT !.pc = "loop", !.t0 = now,
                                 !.given = pass.accounts,
                                 !.updated = pass.accounts,
                                 !.grants = [i \in 1..Len(pass.accounts) |-> NoGrant]]
               ELSE [pass EXCEPT !.pc = "probe", !.updated = pass.accounts,
                                 !.pending = LiveProbes(pass.accounts)]
    /\ UNCHANGED <<sel, now, file, mgr, last, ops, disk, writers, reader, io, flights, stream>>

\* The loop of the refresh pass up to its await: an account that is not
\* due is passed over, for a due one refreshToken sends its request.
LiveAsk ==
    /\ pass.pc = "loop"
    /\ pass.i < Len(pass.updated)
    /\ pass' = IF shouldRefresh(pass.updated[pass.i + 1], pass.t0)
               THEN [pass EXCEPT !.pc = "await"]
               ELSE [pass EXCEPT !.i = @ + 1]
    /\ UNCHANGED <<sel, now, file, mgr, last, ops, disk, writers, reader, io, flights, stream>>

\* The token endpoint answers the request refreshToken awaits, with a
\* grant or with a refusal; refreshToken sets no timeout of its own.
LiveTokenAnswer ==
    LET k == pass.i + 1
    IN  /\ pass.pc = "await"
        /\ \E outcome \in {"ok", "fail"} :
              LET grant == tokenGrant(pass.updated[k], outcome, now)
              IN  pass' = storeSecrets([pass EXCEPT !.pc = "loop", !.i = k,
                                                    !.grants[k] = grant],
                                       k, refreshOne(pass.updated[k], grant))
        /\ UNCHANGED <<sel, now, file, mgr, last, ops, disk, writers, reader, io, flights, stream>>

\* After the loop: the save of the pass, then the probes are sent.
LiveSave ==
    /\ pass.pc = "loop"
    /\ pass.i = Len(pass.updated)
    /\ file' = saveAccounts([version |-> 1, accounts |-> pass.updated,
                             activeIndex |-> 0], now)
    /\ pass' = [pass EXCEPT !.pc = "probe", !.saves = @ + 1,
                            !.pending = LiveProbes(pass.updated)]
    /\ UNCHANGED <<sel, now, mgr, last, ops, disk, writers, reader, io, flights, stream>>

\* The usage endpoint answers the probe of account index, in any way.
LiveProbeAnswer(index) ==
    /\ pass.pc = "probe"
    /\ index \in pass.pending
    /\ pass' = [pass EXCEPT !.pending = @ \ {index}]
    /\ UNCHANGED <<sel, now, file, mgr, last, ops, disk, writers, reader, io, flights, stream>>

\* The timer of fetchQuota fires after REQUEST_TIMEOUT_MS and aborts the
\* probe of account index, which returns null.
LiveProbeTimeout(index) ==
    /\ pass.pc = "probe"
    /\ index \in pass.pending
    /\ pass' = [pass EXCEPT !.pending = @ \ {index}, !.aborted = @ \cup {index}]
    /\ UNCHANGED <<sel, now, file, mgr, last, ops, disk, writers, reader, io, flights, stream>>

\* Promise.allSettled has every probe settled: the ranking runs and the
\* call returns.
LiveReturn ==
    /\ pass.pc = "probe"
    /\ pass.pending = {}
    /\ pass' = [pass EXCEPT !.pc = "done"]
    /\ UNCHANGED <<sel, now, file, mgr, last, ops, disk, writers, reader, io, flights, stream>>

NextLive ==
    \/ LiveStart
    \/ LiveAsk
    \/ LiveTokenAnswer
    \/ LiveSave
    \/ \E index \in 0..(MaxPassAccounts - 1) : LiveProbeAnswer(index)
    \/ \E index \in 0..(MaxPassAccounts - 1) : LiveProbeTimeout(index)
    \/ LiveReturn

\* The steps of the call itself run when they can, and a timer that was
\* set fires; nothing makes the upstream answer.
SpecLive ==
    /\ InitLive
    /\ [][NextLive]_vars
    /\ WF_vars(LiveStart \/ LiveAsk \/ LiveSave \/ LiveReturn)
    /\ \A index \in 0..(MaxPassAccounts - 1) : WF_vars(LiveProbeTimeout(index))

(***************************************************************************)
(* SpecCool: a live pool under rate-limit events and a clock that runs on  *)
(***************************************************************************)

\* The clock of a live pool runs past every cool-down a rate-limit event
\* of the run can set: an event happens at MaxTime at the latest and claims
\* at most MaxDelay more.
CoolHorizon == MaxTime + MaxDelay + 1

\* enabled of the accounts of the pool, none of them in cool-down.
CoolLists ==
    UNION {[1..n -> {"true", "false"}] : n \in 1..MaxWaitAccounts}

\* new AccountManager(accounts, activeIndex), as init builds it from a store
\* without cool-downs.
InitCool ==
    /\ sel = NoSel
    /\ now = 0
    /\ file = NoFile
    /\ \E list \in CoolLists :
         mgr = [exists |-> TRUE,
                accounts |-> [i \in 1..Len(list) |->
                                 Account(1, 1, TokenLifetime, None, None, list[i])],
                activeIndex |-> 0,
                storagePath |-> "default"]
    /\ last = NoOp
    /\ ops = 0
    /\ flights = NoFlights
    /\ stream = NoStream
    /\ disk = NoDisk
    /\ writers = IdleWriters
    /\ reader = IdleReader
    /\ io = NoCall
    /\ pass = NoPass

\* Time passes.
Advance ==
    /\ now < CoolHorizon
    /\ now' = now + 1
    /\ last' = NoOp
    /\ UNCHANGED <<sel, file, mgr, ops, disk, writers, reader, io, pass, flights, stream>>

NextCool ==
    \/ Advance
    \/ HandleRateLimit

\* Time passes whatever the pool does.
SpecCool == InitCool /\ [][NextCool]_vars /\ WF_vars(Advance)

(***************************************************************************)
(* SpecFlight: several requests in flight on the loader's pool, one await  *)
(* at a time                                                               *)
(***************************************************************************)

\* Requests the pipeline has in flight at once.
MaxFlights == 2

Flights == 1..MaxFlights

\* One request of the loader's fetch.  pc is the await it stands at: "token"
\* (refreshToken of the active account), "upstream" (the upstream call),
\* "select" (selectBestAccount inside handleRateLimit), "retryToken"
\* (refreshToken of the next account), "retry" (the retry); used is the
\* index of the account whose access secret the upstream call carries,
\* asking the index of the account whose refresh is awaited and asked the
\* refresh secret submitted; marked is the index handleRateLimit marked,
\* available, seen and t what it computed, handed to selectBestAccount and
\* read from the clock; next is the index it returned.
NoFlight ==
    [pc |-> "idle", used |-> None, token |-> None, asking |-> None,
     asked |-> None, marked |-> None, available |-> {}, seen |-> <<>>, t |-> 0,
     next |-> None, outcome |-> "none"]

\* The pool AccountManager.init() built and persisted, its accounts as the
\* login flow stored them, enabled.
FlightLists ==
    UNION {[1..n -> {a \in NewAccounts : a.enabled = "true"}] : n \in 1..MaxAccounts}

InitFlight ==
    /\ sel = NoSel
    /\ now = 0
    /\ \E accounts \in FlightLists :
         \E activeIndex \in Indexes(accounts) :
            /\ mgr = [exists |-> TRUE, accounts |-> accounts,
                      activeIndex |-> activeIndex, storagePath |-> "default"]
            /\ file = persist(mgr, 0)
    /\ last = NoOp
    /\ ops = 0
    /\ flights = [r \in Flights |-> NoFlight]
    /\ stream = NoStream
    /\ disk = NoDisk
    /\ writers = IdleWriters
    /\ reader = IdleReader
    /\ io = NoCall
    /\ pass = NoPass

\* fetch up to its first await: the active account is read; when its access
\* secret is missing or expired refreshToken(active.refresh) is awaited,
\* else the upstream call is sent with its access secret.
FlightStart(r) ==
    LET active == mgr.activeIndex
        account == At(mgr.accounts, active)
    IN  /\ flights[r].pc = "idle"
        /\ hasActive(mgr)
        /\ flights' = [flights EXCEPT ![r] =
                          IF needsRefresh(account, now)
                          THEN [@ EXCEPT !.pc = "token", !.used = active,
                                         !.asking = active,
                                         !.asked = account.refresh]
                          ELSE [@ EXCEPT !.pc = "upstream", !.used = active,
                                         !.token = account.access]]
        /\ UNCHANGED <<sel, now, file, mgr, last, ops, disk, writers, reader, io, pass, stream>>

\* What the token endpoint can answer to the refresh secret submitted.
FlightTokenOutcomes(f) ==
    {"fail"} \cup (IF f.asked < MaxToken THEN {"ok", "syncFail"} ELSE {})

\* The account object the request holds after the grant was assigned to it.
FlightGranted(f) ==
    [mgr EXCEPT !.accounts[f.asking + 1] =
        refreshOne(@, tokenGrant([refresh |-> f.asked], "ok", now))]

\* refreshToken returns or throws: the secrets are assigned to the account
\* object read before the await, saved with the pool's list and activeIndex
\* of now, synced, and the upstream call or the retry is sent.
FlightTokenAnswer(r) ==
    LET f == flights[r]
    IN  /\ f.pc \in {"token", "retryToken"}
        /\ \E outcome \in FlightTokenOutcomes(f) :
              /\ mgr' = IF outcome = "fail" THEN mgr ELSE FlightGranted(f)
              /\ file' = savedBy(mgr', file, outcome, now)
              /\ flights' = [flights EXCEPT ![r] =
                    IF outcome = "fail"
                    THEN [@ EXCEPT !.pc = "done", !.outcome = "refreshFailed"]
                    ELSE IF outcome = "syncFail"
                    THEN [@ EXCEPT !.pc = "done", !.outcome = "syncFailed"]
                    ELSE [@ EXCEPT !.pc = IF f.pc = "token" THEN "upstream"
                                          ELSE "retry",
                                   !.token = At(mgr'.accounts, f.asking).access]]
        /\ UNCHANGED <<sel, now, last, ops, disk, writers, reader, io, pass, stream>>

\* The upstream answers the first call with something else than a 429, or
\* not at all: fetch returns the response or throws.
FlightAnswer(r) ==
    /\ flights[r].pc = "upstream"
    /\ \E status \in UpstreamStatuses \ {"limited"} :
          flights' = [flights EXCEPT ![r] =
                         [@ EXCEPT !.pc = "done", !.outcome = Outcome(status)]]
    /\ UNCHANGED <<sel, now, file, mgr, last, ops, disk, writers, reader, io, pass, stream>>

\* The upstream answers the first call with a 429: handleRateLimit runs up
\* to its await.  It marks the account that is active now, persists,
\* recomputes the available indexes and, when there is one, calls
\* selectBestAccount, which reads the clock and the accounts and sends its
\* probes.
FlightLimited(r) ==
    /\ flights[r].pc = "upstream"
    /\ hasActive(mgr)
    /\ \E k \in DOMAIN RetryAfterValues :
          LET current == mgr.activeIndex
              marked == [mgr EXCEPT
                           !.accounts[current + 1].rateLimitedUntil =
                               now + Max(0, RetryAfterValues[k])]
              available == getAvailableIndexes(marked.accounts, now)
          IN  /\ mgr' = marked
              /\ file' = persist(marked, now)
              /\ flights' = [flights EXCEPT ![r] =
                    IF available = {}
                    THEN [@ EXCEPT !.pc = "done", !.marked = current,
                                   !.outcome = "exhausted"]
                    ELSE [@ EXCEPT !.pc = "select", !.marked = current,
                                   !.available = available,
                                   !.seen = marked.accounts, !.t = now]]
    /\ UNCHANGED <<sel, now, last, ops, disk, writers, reader, io, pass, stream>>

\* The probes of selectBestAccount have settled: handleRateLimit returns
\* null when the index is not among the available ones it computed, else
\* it switches, persists and returns the account, whose secrets fetch
\* refreshes when needed before the retry.
FlightSelected(r) ==
    LET f == flights[r]
    IN  /\ f.pc = "select"
        /\ \E responses \in ProbeResponses(f.seen, f.t) :
              LET nextIndex == selectBestAccount(f.seen, responses, f.t)
                  switched == [mgr EXCEPT !.activeIndex = nextIndex]
                  account == At(mgr.accounts, nextIndex)
              IN  IF nextIndex \notin f.available
                  THEN /\ flights' = [flights EXCEPT ![r] =
                             [@ EXCEPT !.pc = "done", !.outcome = "exhausted"]]
                       /\ UNCHANGED <<mgr, file>>
                  ELSE /\ mgr' = switched
                       /\ file' = persist(switched, now)
                       /\ flights' = [flights EXCEPT ![r] =
                             IF needsRefresh(account, now)
                             THEN [@ EXCEPT !.pc = "retryToken", !.next = nextIndex,
                                            !.asking = nextIndex,
                                            !.asked = account.refresh]
                             ELSE [@ EXCEPT !.pc = "retry", !.next = nextIndex,
                                            !.token = account.access]]
        /\ UNCHANGED <<sel, now, last, ops, disk, writers, reader, io, pass, stream>>

\* The upstream answers the retry, or not: fetch returns its response,
\* whatever the status, or throws.
FlightRetryAnswer(r) ==
    /\ flights[r].pc = "retry"
    /\ \E status \in UpstreamStatuses :
          flights' = [flights EXCEPT ![r] =
                         [@ EXCEPT !.pc = "done", !.outcome = Outcome(status)]]
    /\ UNCHANGED <<sel, now, file, mgr, last, ops, disk, writers, reader, io, pass, stream>>

\* Time passes while requests wait.
FlightTick ==
    /\ now < MaxTime
    /\ now' = now + 1
    /\ UNCHANGED <<sel, file, mgr, last, ops, flights, disk, writers, reader, io, pass, stream>>

NextFlight ==
    \/ FlightTick
    \/ \E r \in Flights : FlightStart(r)
    \/ \E r \in Flights : FlightTokenAnswer(r)
    \/ \E r \in Flights : FlightAnswer(r)
    \/ \E r \in Flights : FlightLimited(r)
    \/ \E r \in Flights : FlightSelected(r)
    \/ \E r \in Flights : FlightRetryAnswer(r)

SpecFlight == InitFlight /\ [][NextFlight]_vars

(***************************************************************************)
(* SpecSession: session starts of the loader while the usage endpoint is   *)
(* down                                                                    *)
(***************************************************************************)

\* Session starts of one run.
MaxSessions == 4

\* The clock at the first session start; lastUsed of the store lies before.
SessionBegin == 2

\* An account of the store: with an access secret or without, used before
\* or never, enabled or disabled, not in cool-down.
SessionAccounts ==
    {Account(1, access, None, lastUsed, None, enabled) :
        access \in {None, 1}, lastUsed \in {None} \cup (0..(SessionBegin - 1)),
        enabled \in {"true", "false"}}

SessionLists ==
    UNION {[1..n -> SessionAccounts] : n \in 1..MaxWaitAccounts}

InitSession ==
    /\ sel = NoSel
    /\ now = SessionBegin
    /\ \E accounts \in SessionLists :
         file = saveAccounts([version |-> 1, accounts |-> accounts,
                              activeIndex |-> 0], 0)
    /\ mgr = NoManager
    /\ last = NoOp
    /\ ops = 0
    /\ flights = NoFlights
    /\ stream = NoStream
    /\ disk = NoDisk
    /\ writers = IdleWriters
    /\ reader = IdleReader
    /\ io = NoCall
    /\ pass = NoPass

\* The loader at a session start: AccountManager.init() of the default
\* store location, then markUsed(), while every quota probe fails.
SessionStart ==
    LET data == loadAccounts(file, now)
    IN  /\ last.op # "session"
        /\ Len(last.picked) < MaxSessions
        /\ \E responses \in [1..Len(data.accounts) -> SelFailures] :
              LET call == selectBestAccountCall(
                              file, data.accounts, "default",
                              [i \in 1..Len(data.accounts) |-> "fail"],
                              responses, now)
                  manager == [exists |-> TRUE, accounts |-> data.accounts,
                              activeIndex |->
                                  normalizeActiveIndex(data.accounts, call.index),
                              storagePath |-> "default"]
              IN  /\ mgr' = markUsed(manager, now)
                  /\ file' = persist(mgr', now)
                  /\ last' = [last EXCEPT !.op = "session", !.ret = call.index,
                                          !.picked = Append(@, mgr'.activeIndex)]
        /\ UNCHANGED <<sel, now, ops, disk, writers, reader, io, pass, flights, stream>>

\* Time passes between two session starts.
SessionTick ==
    /\ last.op = "session"
    /\ now' = now + 1
    /\ last' = [last EXCEPT !.op = "none"]
    /\ UNCHANGED <<sel, file, mgr, ops, disk, writers, reader, io, pass, flights, stream>>

NextSession ==
    \/ SessionStart
    \/ SessionTick

SpecSession == InitSession /\ [][NextSession]_vars

(***************************************************************************)
(* Properties of selection, stated over the recorded call                  *)
(***************************************************************************)

SelEligible == {i \in Indexes(sel.accounts) : Eligible(At(sel.accounts, i), sel.now)}

\* Primary (five_hour) window first, secondary (seven_day) as fallback.
PrimaryFirst(response) ==
    IF response.five_hour # None THEN response.five_hour ELSE response.seven_day

\* Secondary (seven_day) window first, primary (five_hour) as fallback.
SecondaryFirst(response) ==
    IF response.seven_day # None THEN response.seven_day ELSE response.five_hour

\* The eligible accounts whose probe succeeded: an access secret, a 2xx
\* answer, and at least one window in it.
SelSucceeded ==
    {i \in SelEligible :
        /\ At(sel.accounts, i).access # None
        /\ At(sel.responses, i).status = "ok"
        /\ PrimaryFirst(At(sel.responses, i)) # None}

\* a was used less recently than b; a never-used account comes first.
UsedBefore(a, b) ==
    \/ a.lastUsed = None /\ b.lastUsed # None
    \/ a.lastUsed # None /\ b.lastUsed # None /\ a.lastUsed < b.lastUsed

SameUse(a, b) == a.lastUsed = b.lastUsed

\* Account i ranks strictly before account j under utilization u.
RanksBefore(u(_), i, j) ==
    LET a == At(sel.accounts, i)
        b == At(sel.accounts, j)
        ui == u(At(sel.responses, i))
        uj == u(At(sel.responses, j))
    IN  \/ ui < uj
        \/ ui = uj /\ UsedBefore(a, b)
        \/ ui = uj /\ SameUse(a, b) /\ i < j

\* C1: selectBest never returns the index of a disabled credential or of one
\* whose cool-down is still in the future while an eligible credential
\* exists, whatever the quota probes answer.
C1_NeverIneligible ==
    (sel.called /\ SelEligible # {}) => sel.result \in SelEligible

\* C1 witness: the first account is rate-limited into the future and holds
\* the lowest utilization, yet the second, eligible one is returned.
C1_Witness ==
    /\ sel.called
    /\ Len(sel.accounts) >= 2
    /\ At(sel.accounts, 0).enabled = "true"
    /\ At(sel.accounts, 0).rateLimitedUntil > sel.now
    /\ At(sel.accounts, 0).access # None
    /\ At(sel.responses, 0) = Response("ok", 10, 20)
    /\ At(sel.responses, 1) = Response("ok", 20, 10)
    /\ 1 \in SelEligible
    /\ sel.result = 1

\* C5: with at least one successful probe, the result is the successful
\* eligible credential with the smallest utilization; failed probes are left
\* out; ties go to the smaller lastUsed (never used first), then to the
\* earliest position.
C5_LowestUtilization ==
    (sel.called /\ SelSucceeded # {}) =>
        /\ sel.result \in SelSucceeded
        /\ \A j \in SelSucceeded \ {sel.result} :
              RanksBefore(PrimaryFirst, sel.result, j)

\* C5 witness: two successes with the same utilization; the second account
\* was never used, the first was, and the second is returned.
C5_Witness ==
    /\ sel.called
    /\ SelSucceeded = {0, 1}
    /\ PrimaryFirst(At(sel.responses, 0)) = PrimaryFirst(At(sel.responses, 1))
    /\ At(sel.accounts, 0).lastUsed # None
    /\ At(sel.accounts, 1).lastUsed = None
    /\ sel.result = 1

C7_SevenDayFirst ==
    (sel.called /\ SelSucceeded # {}) =>
        \A j \in SelSucceeded :
            SecondaryFirst(At(sel.responses, sel.result))
                <= SecondaryFirst(At(sel.responses, j))

\* C8: when no probe succeeds, the result is an eligible never-used
\* credential if there is one, otherwise the eligible credential with the
\* smallest lastUsed.
C8_RoundRobinFallback ==
    (sel.called /\ SelEligible # {} /\ SelSucceeded = {}) =>
        /\ sel.result \in SelEligible
        /\ \A j \in SelEligible :
              ~UsedBefore(At(sel.accounts, j), At(sel.accounts, sel.result))

\* C8 witness: every probe fails, both accounts are eligible and were used;
\* the second was used earlier and is returned.
C8_Witness ==
    /\ sel.called
    /\ SelEligible = {0, 1}
    /\ SelSucceeded = {}
    /\ At(sel.accounts, 0).access # None
    /\ At(sel.accounts, 1).access # None
    /\ At(sel.accounts, 0).lastUsed = SelNow
    /\ At(sel.accounts, 1).lastUsed = 0
    /\ sel.result = 1

\* C24: fetchQuota never throws; a probe that timed out, failed on the
\* network, was answered by a non-2xx status or by a body that is no JSON
\* gives null, a 2xx with a JSON body gives that body, and the pass that
\* issued the probes ends with an index.
C24_ProbeNeverRaises ==
    sel.called =>
        /\ sel.result # None
        /\ \A k \in 1..Len(sel.probes) :
              LET quota == sel.probes[k].quota
                  response == At(sel.responses, sel.probes[k].index)
              IN  /\ ~quota.raised
                  /\ response.status # "ok" => quota.null
                  /\ response.status = "ok" =>
                        /\ ~quota.null
                        /\ quota.five_hour = response.five_hour
                        /\ quota.seven_day = response.seven_day

\* C24 witness: of two probes the first timed out and the second was
\* answered; the pass returned the second credential.
C24_Witness ==
    /\ sel.called
    /\ Len(sel.probes) = 2
    /\ At(sel.responses, 0).status = "timeout"
    /\ sel.probes[1].quota.null
    /\ At(sel.responses, 1).status = "ok"
    /\ ~sel.probes[2].quota.null
    /\ sel.result = 1

\* The number of fetchQuota calls of the pass for the account at index i.
ProbeCount(i) == Cardinality({k \in 1..Len(sel.probes) : sel.probes[k].index = i})

\* C26: one pass calls the quota probe exactly once for each eligible
\* credential that has an access secret, and for no other credential.
C26_ProbedOncePerEligible ==
    sel.called =>
        \A i \in Indexes(sel.accounts) :
            ProbeCount(i) = IF i \in SelEligible /\ At(sel.accounts, i).access # None
                            THEN 1 ELSE 0

\* C26 witness: the first credential is rate-limited into the future, the
\* second is eligible; both have an access secret and only the second was
\* probed.
C26_Witness ==
    /\ sel.called
    /\ Len(sel.accounts) = 2
    /\ At(sel.accounts, 0).access # None
    /\ At(sel.accounts, 0).enabled = "true"
    /\ At(sel.accounts, 0).rateLimitedUntil > sel.now
    /\ At(sel.accounts, 1).access # None
    /\ 1 \in SelEligible
    /\ Len(sel.probes) = 1
    /\ sel.probes[1].index = 1

(***************************************************************************)
(* Properties of the pool and the store                                    *)
(***************************************************************************)

InRange(activeIndex, accounts) ==
    IF Len(accounts) = 0
    THEN activeIndex = 0
    ELSE 0 <= activeIndex /\ activeIndex < Len(accounts)

\* C2: called while another credential is eligible, handleRateLimit marks
\* the active credential with rateLimitedUntil = now + retryAfterMs,
\* switches activeIndex to an eligible other credential, returns it, and the
\* persisted document holds the mark and the new activeIndex.
C2_SwitchAndPersist ==
    (last.op = "handleRateLimit" /\ last.marked /\ last.others0 # {}) =>
        /\ At(mgr.accounts, last.active0).rateLimitedUntil = last.claimed
        /\ mgr.activeIndex \in last.others0
        /\ last.ret = mgr.activeIndex
        /\ file.exists
        /\ Len(file.data.accounts) = Len(mgr.accounts)
        /\ At(file.data.accounts, last.active0).rateLimitedUntil = last.claimed
        /\ file.data.activeIndex = mgr.activeIndex

\* C3: when no credential is eligible once the active one is marked,
\* handleRateLimit returns none and leaves activeIndex unchanged.
C3_ExhaustedKeepsActive ==
    (last.op = "handleRateLimit" /\ last.marked /\ last.eligible1 = {}) =>
        /\ last.ret = None
        /\ mgr.activeIndex = last.active0

\* C3 witness: a pool of two, the other credential disabled or in cool-down,
\* the active one marked into the future, none returned.
C3_Witness ==
    /\ last.op = "handleRateLimit"
    /\ last.marked
    /\ last.eligible1 = {}
    /\ Len(mgr.accounts) = 2
    /\ At(mgr.accounts, last.active0).enabled = "true"
    /\ At(mgr.accounts, last.active0).rateLimitedUntil > now
    /\ last.ret = None
    /\ mgr.activeIndex = last.active0

\* C4: on a pool of one credential handleRateLimit returns none and sets
\* rateLimitedUntil to exactly now + retryAfterMs, for every retryAfterMs.
C4_SingleCredential ==
    (last.op = "handleRateLimit" /\ last.marked /\ Len(mgr.accounts) = 1) =>
        /\ last.ret = None
        /\ At(mgr.accounts, 0).rateLimitedUntil = last.claimed

\* C9: the persisted document and the pool object keep activeIndex inside
\* the credential list, and at 0 when the list is empty.
C9_ActiveIndexInRange ==
    /\ file.exists => InRange(file.data.activeIndex, file.data.accounts)
    /\ mgr.exists => InRange(mgr.activeIndex, mgr.accounts)

\* C9 witness: the pool's active credential is the second of two, the store
\* has lost one of them since and its activeIndex is back inside its list.
C9_Witness ==
    /\ mgr.exists
    /\ Len(mgr.accounts) = 2
    /\ mgr.activeIndex = 1
    /\ file.exists
    /\ Len(file.data.accounts) = 1
    /\ file.data.activeIndex = 0

(***************************************************************************)
(* Properties of the store location                                        *)
(***************************************************************************)

\* C10: the file at the store location is absent or the complete document
\* of exactly one save, at every step of interleaved saves, and a completed
\* read of it yields such a document.
C10_WholeOrAbsent ==
    /\ disk.dir[FinalPath] # None =>
           IsDocument(disk.inodes[disk.dir[FinalPath]].content)
    /\ reader.result = "parsed" => IsDocument(reader.seen)

\* C10 witness: one process has renamed its document into place, a second
\* one is between two writes of its own save, and a read that ran meanwhile
\* has parsed a document.
C10_Witness ==
    \E p \in Pids, q \in Pids :
        /\ p # q
        /\ writers[p].pc = "write"
        /\ writers[p].written = 1
        /\ writers[q].saves >= 1
        /\ disk.dir[FinalPath] = SaveId(q, 1)
        /\ reader.result = "parsed"
        /\ reader.seen = Document(SaveId(q, 1))

(***************************************************************************)
(* Properties of loadAccounts, saveAccounts and removeAccount              *)
(***************************************************************************)

\* rateLimitedUntil as written in the file for the account at position i.
TextCoolDown(text, i) ==
    IF \E k \in DOMAIN text.accounts[i] : text.accounts[i][k].key = "rateLimitedUntil"
    THEN LET k == CHOOSE k \in DOMAIN text.accounts[i] :
                     text.accounts[i][k].key = "rateLimitedUntil"
         IN  text.accounts[i][k].value.n
    ELSE None

IsDocumentText(text) == text.kind = "object" /\ text.hasAccounts

\* C16: load clears every rateLimitedUntil strictly in the past at load
\* time and returns every rateLimitedUntil strictly in the future unchanged.
C16_StaleCleared ==
    (io.op = "load" /\ IsDocumentText(io.text)) =>
        /\ ~io.raised
        /\ Len(io.out.accounts) = Len(io.text.accounts)
        /\ \A i \in 1..Len(io.text.accounts) :
              LET stored == TextCoolDown(io.text, i)
              IN  /\ (stored # None /\ stored < io.t) =>
                         io.out.accounts[i].rateLimitedUntil = None
                  /\ (stored # None /\ stored > io.t) =>
                         io.out.accounts[i].rateLimitedUntil = stored

\* C16 witness: a loaded file with one cool-down in the past and one in the
\* future.
C16_Witness ==
    /\ io.op = "load"
    /\ IsDocumentText(io.text)
    /\ Len(io.text.accounts) >= 2
    /\ TextCoolDown(io.text, 1) = io.t - 1
    /\ TextCoolDown(io.text, 2) = io.t + 1
    /\ io.out.accounts[1].rateLimitedUntil = None
    /\ io.out.accounts[2].rateLimitedUntil = io.t + 1

\* C17: after load returns at time now, no credential of the returned
\* document has rateLimitedUntil <= now.
C17_NoneAtOrBeforeNow ==
    (io.op = "load" /\ ~io.raised) =>
        \A i \in 1..Len(io.out.accounts) :
            \/ io.out.accounts[i].rateLimitedUntil = None
            \/ io.out.accounts[i].rateLimitedUntil > io.t

\* A normalized document: defaults present, no expired cool-down,
\* activeIndex inside the list (0 for the empty list).
Normalized(D, t) ==
    /\ \A i \in 1..Len(D.accounts) :
          /\ D.accounts[i].enabled \in {"true", "false"}
          /\ D.accounts[i].addedAt # None
          /\ \/ D.accounts[i].rateLimitedUntil = None
             \/ D.accounts[i].rateLimitedUntil >= t
    /\ IF Len(D.accounts) = 0
       THEN D.activeIndex = 0
       ELSE D.activeIndex \in 0..(Len(D.accounts) - 1)

\* C18: for a normalized document D and an unchanged clock, load after
\* save(D) returns D, and saving and loading that again changes nothing.
C18_RoundTrip ==
    (io.op = "saveLoad" /\ Normalized(io.doc, io.t)) =>
        /\ ~io.raised
        /\ io.out = io.doc
        /\ io.again = io.out

\* C18 witness: the round trip of a normalized document of two accounts,
\* one disabled, one in a cool-down, the second one active.
C18_Witness ==
    /\ io.op = "saveLoad"
    /\ Normalized(io.doc, io.t)
    /\ Len(io.doc.accounts) = 2
    /\ io.doc.activeIndex = 1
    /\ io.doc.accounts[1].enabled = "false"
    /\ io.doc.accounts[2].rateLimitedUntil = io.t + 1
    /\ io.out = io.doc

\* C19: load raises for content that is not a well-formed pool document
\* (unparsable text, or a value that is not an object with a credential
\* list) and never returns an empty or partial pool in its place.
C19_MalformedRaises ==
    (io.op = "load" /\ io.text.kind # "missing" /\ ~IsDocumentText(io.text)) =>
        io.raised

\* C20: remove(i) with i < activeIndex shifts activeIndex down by one, and
\* the credential that was active is still the active one.
C20_RemoveShifts ==
    (/\ io.op = "remove"
     /\ io.doc.activeIndex \in 0..(Len(io.doc.accounts) - 1)
     /\ 0 <= io.index
     /\ io.index < io.doc.activeIndex) =>
        /\ io.out.activeIndex = io.doc.activeIndex - 1
        /\ Len(io.out.accounts) = Len(io.doc.accounts) - 1
        /\ At(io.out.accounts, io.out.activeIndex).refresh =
               At(io.doc.accounts, io.doc.activeIndex).refresh

\* C20 witness: of three credentials with the last one active the middle
\* one is removed, and the active one is now at position 1.
C20_Witness ==
    /\ io.op = "remove"
    /\ Len(io.doc.accounts) = 3
    /\ io.doc.activeIndex = 2
    /\ io.index = 1
    /\ io.out.activeIndex = 1
    /\ At(io.out.accounts, 1).refresh = 2

(***************************************************************************)
(* Properties of the refresh pass                                          *)
(***************************************************************************)

SameSecrets(a, b) ==
    /\ a.refresh = b.refresh
    /\ a.access = b.access
    /\ a.expires = b.expires

\* Due at the start of the pass: expires absent or within the horizon.
PassDue(account) ==
    account.expires = None \/ account.expires < pass.t0 + RefreshHorizon

\* C11: whichever refreshes fail, every due credential is attempted; a
\* granted one holds its new secrets, a failed one its previous ones; the
\* pool is persisted exactly once, after the last credential.
C11_RefreshPass ==
    /\ pass.pc # "done" => (pass.saves = 0 /\ ~file.exists)
    /\ pass.pc = "done" =>
          /\ pass.saves = 1
          /\ file.exists
          /\ Len(pass.updated) = Len(pass.accounts)
          /\ Len(file.data.accounts) = Len(pass.accounts)
          /\ \A i \in 1..Len(pass.accounts) :
                LET account == pass.accounts[i]
                    copy == pass.updated[i]
                    grant == pass.grants[i]
                IN  /\ PassDue(account) => grant.status \in {"ok", "fail"}
                    /\ ~PassDue(account) => (grant.status = "none" /\ copy = account)
                    /\ grant.status = "ok" => SameSecrets(copy, grant)
                    /\ grant.status = "fail" => SameSecrets(copy, account)
                    /\ SameSecrets(file.data.accounts[i], copy)

\* C11 witness: a finished pass over three due credentials of which the
\* first and the last were refused and the middle one was granted.
C11_Witness ==
    /\ pass.pc = "done"
    /\ Len(pass.accounts) = 3
    /\ pass.grants[1].status = "fail"
    /\ pass.grants[2].status = "ok"
    /\ pass.grants[3].status = "fail"
    /\ pass.updated[2].refresh # pass.accounts[2].refresh
    /\ pass.saves = 1

\* C21: a refresh pass asks the token endpoint for exactly the credentials
\* whose expires is absent or earlier than the horizon after the start of
\* the pass; every other credential keeps its three secrets, and the
\* records handed in are as they were at the call.
C21_OnlyDueRefreshed ==
    pass.pc \in {"loop", "done"} =>
        /\ pass.accounts = pass.given
        /\ \A i \in 1..pass.i :
              /\ pass.grants[i].status # "none" <=> PassDue(pass.given[i])
              /\ ~PassDue(pass.given[i]) => SameSecrets(pass.updated[i], pass.given[i])
        /\ \A i \in (pass.i + 1)..Len(pass.given) :
              /\ pass.grants[i].status = "none"
              /\ pass.updated[i] = pass.given[i]

\* C21 witness: a finished pass over three credentials, the first expiring
\* exactly at the horizon and passed over, the second without expires and
\* granted new secrets, the third expiring beyond the horizon.
C21_Witness ==
    /\ pass.pc = "done"
    /\ Len(pass.given) = 3
    /\ pass.given[1].expires = pass.t0 + RefreshHorizon
    /\ pass.grants[1].status = "none"
    /\ pass.given[2].expires = None
    /\ pass.grants[2].status = "ok"
    /\ pass.updated[2].refresh # pass.given[2].refresh
    /\ pass.given[3].expires > pass.t0 + RefreshHorizon
    /\ pass.grants[3].status = "none"
    /\ pass.accounts = pass.given

(***************************************************************************)
(* Properties of init and of a request                                     *)
(***************************************************************************)

\* C12: every init of a pool with credentials, also with the default store
\* location, runs the refresh pass before selection, and when it returns
\* the persisted activeIndex is the index selection returned.
C12_InitOrder ==
    (last.op = "init" /\ Len(mgr.accounts) > 0) =>
        /\ last.refreshed
        /\ file.exists
        /\ file.data.activeIndex = last.ret

\* The request was sent with the active credential and got a 429, which
\* handleRateLimit marked on that credential.
Got429 ==
    /\ last.op = "fetch"
    /\ last.calls >= 1
    /\ last.statuses[1] = "limited"
    /\ last.marked

\* C13: a request that receives a 429 while no other credential is eligible
\* fails with the exhaustion error, which carries the shortest remaining
\* wait of the pool, after its one upstream call.
C13_ExhaustionError ==
    (Got429 /\ last.others0 = {}) =>
        /\ last.outcome = "exhausted"
        /\ last.calls = 1
        /\ last.wait # None
        /\ last.wait = getShortestWait(mgr.accounts, now)

\* The request got a 429 and handleRateLimit returned a credential.
FailedOver == Got429 /\ last.ret # None

\* The retry was sent with the access secret of the returned credential and
\* its response, a 429 too, was returned.
RetriedOnce ==
    /\ last.calls = 2
    /\ last.tokens[2] = At(mgr.accounts, last.ret).access
    /\ last.statuses[2] \in {"ok", "limited"} => last.outcome = "returned"

\* C14 as stated: a request that receives a 429 for which handleRateLimit
\* returns a credential is retried exactly once with the access secret of
\* that credential and ends with the response of the retry.
C14_RetriedOnce == FailedOver => RetriedOnce

\* C14 amended: such a request makes at most two upstream calls; when the
\* returned credential's access secret is missing or expired and its
\* refresh fails, or the sync of the refreshed secrets fails, the request
\* fails without a retry; in every other case it is retried exactly once
\* with the access secret the credential then has and ends with the
\* response of the retry whatever its status.
C14_RetriedUnlessRefreshFails ==
    /\ last.op = "fetch" => last.calls <= 2
    /\ FailedOver =>
          IF last.outcome = "refreshFailed"
          THEN /\ last.calls = 1
               /\ needsRefresh(At(mgr.accounts, last.ret), now)
          ELSE IF last.outcome = "syncFailed"
          THEN last.calls = 1
          ELSE RetriedOnce

\* C14 witness: the pool switched to its other credential, the retry was
\* sent with that credential's access secret, was answered by a 429 too,
\* and that response was returned.
C14_Witness ==
    /\ FailedOver
    /\ last.ret # last.active0
    /\ mgr.activeIndex = last.ret
    /\ last.calls = 2
    /\ last.statuses = <<"limited", "limited">>
    /\ IsNumber(last.tokens[2])
    /\ last.tokens[2] = At(mgr.accounts, last.ret).access
    /\ last.outcome = "returned"

\* C15: selection is sticky.  markUsed, getShortestWait and a request that
\* receives no 429 leave activeIndex as it was, and activeIndex differs
\* from what it was before an operation of the pool only when that
\* operation was a handleRateLimit call, direct or inside a request, that
\* returned the credential now active.
C15_Sticky ==
    (mgr.exists /\ last.op \in {"markUsed", "getShortestWait", "fetch",
                                 "handleRateLimit"}) =>
        /\ last.op \in {"markUsed", "getShortestWait"} =>
              mgr.activeIndex = last.active0
        /\ (last.op = "fetch" /\ ~Got429) => mgr.activeIndex = last.active0
        /\ mgr.activeIndex # last.active0 =>
              /\ last.op \in {"fetch", "handleRateLimit"}
              /\ last.marked
              /\ last.ret = mgr.activeIndex

\* C15 witness: markUsed on a pool of two whose second credential is
\* active stamped that credential and left it active.
C15_Witness ==
    /\ last.op = "markUsed"
    /\ Len(mgr.accounts) = 2
    /\ last.active0 = 1
    /\ mgr.activeIndex = 1
    /\ At(mgr.accounts, 1).lastUsed = now

\* handleRateLimit, direct or inside a request, switched the pool to
\* another credential.
Switched ==
    /\ last.op \in {"handleRateLimit", "fetch"}
    /\ last.marked
    /\ last.ret # None
    /\ last.ret # last.active0

\* C22: a credential that becomes the active one has its lastUsed set to
\* the time of that selection: at session start by the markUsed that
\* follows init, and at a handleRateLimit switch.
C22_LastUsedOnSelection ==
    /\ (last.op = "markUsed" /\ hasActive(mgr)) =>
          At(mgr.accounts, mgr.activeIndex).lastUsed = now
    /\ Switched => At(mgr.accounts, last.ret).lastUsed = now

\* The accounts of the pool whose cool-down ends strictly after the clock.
CoolingDown ==
    {i \in Indexes(mgr.accounts) :
        /\ At(mgr.accounts, i).rateLimitedUntil # None
        /\ At(mgr.accounts, i).rateLimitedUntil > now}

\* C23: getShortestWait returns the least rateLimitedUntil - now over the
\* credentials whose rateLimitedUntil is strictly after now, none when
\* there is no such credential, and leaves the pool, the store and the
\* clock as they were.
C23_ShortestWait ==
    [][(last'.op = "getShortestWait" /\ ops' # ops) =>
          /\ mgr' = mgr
          /\ file' = file
          /\ now' = now
          /\ IF CoolingDown = {}
             THEN last'.wait = None
             ELSE /\ \E i \in CoolingDown :
                       last'.wait = At(mgr.accounts, i).rateLimitedUntil - now
                  /\ \A i \in CoolingDown :
                       last'.wait <= At(mgr.accounts, i).rateLimitedUntil - now]_vars

\* C23 witness: of three credentials the first cools down for two more
\* ticks, the second, disabled, for one, the third's cool-down ended at
\* this very tick; the wait is one tick.
C23_Witness ==
    /\ last.op = "getShortestWait"
    /\ Len(mgr.accounts) = 3
    /\ At(mgr.accounts, 0).rateLimitedUntil = now + 2
    /\ At(mgr.accounts, 1).rateLimitedUntil = now + 1
    /\ At(mgr.accounts, 1).enabled = "false"
    /\ At(mgr.accounts, 2).rateLimitedUntil = now
    /\ last.wait = 1

\* C25: a request whose refresh of the active credential's secrets fails
\* ends with that error, before its first upstream call or, after a
\* failover, before the retry, and the credential is left as it was; no
\* upstream call of any request is sent with a missing or expired secret.
C25_RefreshFailureFatal ==
    last.op = "fetch" =>
        /\ Len(last.stale) = last.calls
        /\ \A k \in 1..Len(last.stale) : ~last.stale[k]
        /\ last.outcome = "refreshFailed" =>
              /\ last.calls = IF last.marked THEN 1 ELSE 0
              /\ needsRefresh(At(mgr.accounts, mgr.activeIndex), now)

\* C25 witness: the active credential's access secret has expired, its
\* refresh failed and the request ended without an upstream call.
C25_Witness ==
    /\ last.op = "fetch"
    /\ last.outcome = "refreshFailed"
    /\ last.calls = 0
    /\ At(mgr.accounts, mgr.activeIndex).access # None
    /\ At(mgr.accounts, mgr.activeIndex).expires # None
    /\ At(mgr.accounts, mgr.activeIndex).expires < now

\* The two documents hold the same accounts with the same secrets.
SamePersistedSecrets(f, g) ==
    /\ Len(f.data.accounts) = Len(g.data.accounts)
    /\ \A i \in 1..Len(f.data.accounts) :
          SameSecrets(f.data.accounts[i], g.data.accounts[i])

\* C27: a selectBestAccount call leaves the persisted document as it was:
\* the same activeIndex and the same secrets before and after the call.
C27_SelectionIsPure ==
    [][(last'.op = "selectBestAccount" /\ ops' # ops) =>
          /\ file'.exists = file.exists
          /\ file'.data.activeIndex = file.data.activeIndex
          /\ SamePersistedSecrets(file', file)]_vars

\* C28: init, markUsed, handleRateLimit and a request write the persisted
\* document as they read it with their own change applied: the accounts
\* the store held before the operation, added or removed since the pool
\* was built, are all there after it.
C28_LoadModifySave ==
    [][(ops' # ops /\ last'.op \in {"init", "markUsed", "handleRateLimit", "fetch"}) =>
          Len(file'.data.accounts) = Len(file.data.accounts)]_vars

\* C29: every selectBestAccount call returns, whether the upstream answers
\* the quota probes and the token refreshes of the refresh pass or not.
C29_EveryCallReturns == <>(pass.pc = "done")

\* C30: after a 429 the retry with the next account is sent only when the
\* retry period the response specified has passed.
C30_WaitsRetryPeriod ==
    (FailedOver /\ last.calls = 2) => now >= last.claimed

(***************************************************************************)
(* Properties of the pool's operations and of rotation                     *)
(***************************************************************************)

\* The operations of an AccountManager object that change or read it; init
\* builds a new object.
PoolOperation ==
    \/ MarkUsed
    \/ HandleRateLimit
    \/ Fetch
    \/ GetShortestWait

\* The active credential is enabled and carries no cool-down, and a fresh
\* selectBestAccount pass over the pool can return another credential.
RotationDue ==
    /\ mgr.exists
    /\ hasActive(mgr)
    /\ At(mgr.accounts, mgr.activeIndex).enabled # "false"
    /\ At(mgr.accounts, mgr.activeIndex).rateLimitedUntil = None
    /\ ops < MaxOps
    /\ \E call \in SelectCalls(file, mgr.accounts, mgr.storagePath, now) :
          call.index # mgr.activeIndex

\* C31: the pool offers an operation (switchAccount) that runs a fresh
\* selectBest pass and makes its result the active credential also while
\* the active credential is eligible and not rate-limited: whenever such a
\* pass can return another credential, some operation of the pool makes
\* that credential active and puts no cool-down on the one that was.
C31_SwitchOffered ==
    RotationDue =>
        ENABLED (/\ PoolOperation
                 /\ mgr'.activeIndex # mgr.activeIndex
                 /\ At(mgr'.accounts, mgr.activeIndex).rateLimitedUntil = None)

\* The enabled accounts of the pool.
EnabledIndexes == {i \in Indexes(mgr.accounts) : At(mgr.accounts, i).enabled # "false"}

\* Account i counts as eligible for handleRateLimit and for selectBestAccount
\* at the clock.
CountsEligible(i) ==
    /\ i \in getAvailableIndexes(mgr.accounts, now)
    /\ \E k \in 1..Len(eligibleIndexes(mgr.accounts, now)) :
          eligibleIndexes(mgr.accounts, now)[k] = i

\* C32: no cool-down is stuck in a live pool.  Whenever handleRateLimit
\* recomputes the available credentials, every enabled credential whose
\* rateLimitedUntil the clock has reached is among them; and as time
\* advances every enabled credential counts as eligible again, for
\* handleRateLimit and for selectBest, whatever rate-limit events came.
C32_NoStuckCoolDown ==
    /\ []((last.op \in {"handleRateLimit", "fetch"} /\ last.marked) =>
            \A i \in EnabledIndexes :
               At(mgr.accounts, i).rateLimitedUntil <= last.t1 =>
                  i \in last.available)
    /\ \A i \in 0..(MaxWaitAccounts - 1) :
          (i \in EnabledIndexes) ~> (i \in EnabledIndexes /\ CountsEligible(i))

\* C32 witness: the first credential was put into cool-down, the pool went
\* on with the second, and when that one was rate-limited after the first
\* one's cool-down had ended the pool switched back to the first.
C32_Witness ==
    /\ last.op \in {"handleRateLimit", "fetch"}
    /\ last.marked
    /\ last.active0 = 1
    /\ last.ret = 0
    /\ mgr.activeIndex = 0
    /\ At(mgr.accounts, 0).rateLimitedUntil > 0
    /\ At(mgr.accounts, 0).rateLimitedUntil <= last.t1
    /\ At(mgr.accounts, 1).rateLimitedUntil > now
    /\ 0 \in last.available

\* C33: no successful refresh is lost.  When init or handleRateLimit
\* returns, every credential whose refresh grant succeeded during the call
\* holds the newly issued secrets in the pool's record and in the persisted
\* document; and no write of the pool replaces a persisted refresh secret
\* by one issued before it.
C33_NoRefreshLost ==
    /\ [](last.op \in {"init", "handleRateLimit"} =>
            \A i \in last.granted :
               /\ SameSecrets(At(mgr.accounts, i), At(last.updated, i))
               /\ i \in Indexes(file.data.accounts)
               /\ SameSecrets(At(file.data.accounts, i), At(last.updated, i)))
    /\ [][(ops' # ops /\ last'.op \in {"init", "markUsed", "handleRateLimit", "fetch"}) =>
             \A i \in Indexes(file.data.accounts) \cap Indexes(file'.data.accounts) :
                At(file'.data.accounts, i).refresh >= At(file.data.accounts, i).refresh]_vars

\* C35: no upstream call is authenticated with a disabled credential: the
\* credential a request of the pipeline is sent with, the active one after
\* init and the one handleRateLimit returned for the retry, is enabled.
C35_NeverDisabled ==
    (last.op = "fetch" /\ last.calls >= 1 /\ last.active0 \in Indexes(mgr.accounts)) =>
        /\ At(mgr.accounts, last.active0).enabled # "false"
        /\ last.calls = 2 => At(mgr.accounts, last.ret).enabled # "false"

\* C36: for every retryAfterMs, the credential handleRateLimit returns is
\* enabled, is not in cool-down when the call returns, and is not the
\* credential the call has just marked.
C36_ReturnedIsUsable ==
    (last.op \in {"handleRateLimit", "fetch"} /\ last.marked /\ last.ret # None) =>
        /\ At(mgr.accounts, last.ret).enabled # "false"
        /\ ~(/\ At(mgr.accounts, last.ret).rateLimitedUntil # None
             /\ At(mgr.accounts, last.ret).rateLimitedUntil > now)
        /\ last.ret # last.active0

\* The persisted document f holds the state of the pool m at clock t: the
\* same activeIndex and the same accounts field for field, but that a
\* cool-down that has ended may be missing from the document.
Persisted(f, m, t) ==
    /\ f.exists
    /\ f.data.activeIndex = m.activeIndex
    /\ Len(f.data.accounts) = Len(m.accounts)
    /\ \A i \in 1..Len(m.accounts) :
          \/ f.data.accounts[i] = m.accounts[i]
          \/ /\ m.accounts[i].rateLimitedUntil # None
             /\ m.accounts[i].rateLimitedUntil <= t
             /\ f.data.accounts[i] = [m.accounts[i] EXCEPT !.rateLimitedUntil = None]

\* C38: with one pool object and no other writer the persisted document
\* equals the pool's state whenever no operation is in progress: init
\* leaves it so, and markUsed, handleRateLimit (returning a credential or
\* none) and a request with its token refreshes keep it so.
C38_StoreMirrorsPool ==
    [][(/\ ops' # ops
        /\ last'.op \in {"init", "markUsed", "handleRateLimit", "fetch"}
        /\ last'.op # "init" => (hasActive(mgr) /\ Persisted(file, mgr, now)))
          => Persisted(file', mgr', now')]_vars

\* C39: while every quota probe fails and N credentials are eligible, any
\* N consecutive session starts (init, then markUsed, at a strictly
\* increasing clock) select N distinct credentials: none is selected again
\* before every other eligible one has been selected.
C39_RotatesLeastRecentlyUsed ==
    (mgr.exists /\ last.picked # <<>>) =>
        \A k, j \in 1..Len(last.picked) :
            (k < j /\ j - k < Cardinality(EnabledIndexes)) =>
                last.picked[k] # last.picked[j]

\* C39 witness: three eligible credentials, all used before and the second
\* the longest ago, the first and the third at the same time: three session
\* starts selected the second, the first and the third.
C39_Witness ==
    /\ mgr.exists
    /\ Len(mgr.accounts) = 3
    /\ Cardinality(EnabledIndexes) = 3
    /\ last.picked = <<1, 0, 2>>
    /\ At(mgr.accounts, 0).lastUsed = SessionBegin + 1
    /\ At(mgr.accounts, 1).lastUsed = SessionBegin
    /\ At(mgr.accounts, 2).lastUsed = SessionBegin + 2

(***************************************************************************)
(* Properties of requests in flight                                        *)
(***************************************************************************)

\* C34: with several requests in flight, handleRateLimit puts into
\* cool-down only the credential whose own upstream request returned the
\* 429: the credential a request's handleRateLimit marked is the one whose
\* access secret that request was sent with.
C34_MarksOwnCredential ==
    \A r \in DOMAIN flights :
        flights[r].marked # None => flights[r].marked = flights[r].used

\* The request awaits the grant of a refresh of credential i.
AwaitsGrant(r, i) ==
    /\ flights[r].pc \in {"token", "retryToken"}
    /\ flights[r].asking = i

\* C37: at most one refresh grant per credential is in flight: no two
\* requests await the token endpoint for the same credential with the same
\* refresh secret.
C37_OneGrantInFlight ==
    \A r1, r2 \in DOMAIN flights :
        \A i \in Indexes(mgr.accounts) :
            (r1 # r2 /\ AwaitsGrant(r1, i) /\ AwaitsGrant(r2, i)) =>
                flights[r1].asked # flights[r2].asked

(***************************************************************************)
(* SpecStream: a streamed response passing wrapStreamingResponse           *)
(*                                                                         *)
(* A text is a sequence of characters, a body a sequence of bytes.  The    *)
(* characters are the quote "q", the words "name" and "mcp_" (one token    *)
(* each: no other token holds their letters, so the expression of          *)
(* transformStreamChunk matches them nowhere else), white space "sp", the  *)
(* colon, the letter "b" and "eacute", a character of two bytes (c3 a9)    *)
(* in UTF-8; "fffd" is the replacement character of the decoder.           *)
(***************************************************************************)

\* Most fragments a response text is made of.
MaxFragments == 2

\* Most places at which the transport cuts a response body.
MaxCuts == 2

\* \s* of the expression: the first position from i on that holds no white
\* space (Len(text) + 1 when there is none).
RECURSIVE skipSpace(_, _)
skipSpace(text, i) ==
    IF i <= Len(text) /\ text[i] = "sp" THEN skipSpace(text, i + 1) ELSE i

\* [^"]+ of the expression: the first position from i on that holds a quote
\* (Len(text) + 1 when there is none).
RECURSIVE skipName(_, _)
skipName(text, i) ==
    IF i <= Len(text) /\ text[i] # "q" THEN skipName(text, i + 1) ELSE i

\* The match of /"name"\s*:\s*"mcp_([^"]+)"/ that starts at position i: where
\* the group starts (from) and where the closing quote is (to); found is
\* FALSE when no match starts at i.
matchAt(text, i) ==
    LET n     == Len(text)
        colon == skipSpace(text, i + 3)
        value == skipSpace(text, colon + 1)
        to    == skipName(text, value + 2)
    IN  IF /\ i + 2 <= n
           /\ text[i] = "q" /\ text[i + 1] = "name" /\ text[i + 2] = "q"
           /\ colon <= n /\ text[colon] = "colon"
           /\ value + 1 <= n
           /\ text[value] = "q" /\ text[value + 1] = "mcp_"
           /\ to > value + 2
           /\ to <= n
        THEN [found |-> TRUE, from |-> value + 2, to |-> to]
        ELSE [found |-> FALSE, from |-> 0, to |-> 0]

\* String.prototype.replace with the g flag, from position i on: every
\* match, leftmost first, becomes "name": "$1"; the rest is kept.
RECURSIVE replaceFrom(_, _)
replaceFrom(text, i) ==
    IF i > Len(text) THEN <<>>
    ELSE LET m == matchAt(text, i)
         IN  IF m.found
             THEN <<"q", "name", "q", "colon", "sp", "q">>
                      \o SubSeq(text, m.from, m.to - 1) \o <<"q">>
                      \o replaceFrom(text, m.to + 1)
             ELSE <<text[i]>> \o replaceFrom(text, i + 1)

\* transformStreamChunk(text).
transformStreamChunk(text) == replaceFrom(text, 1)

\* TextEncoder.encode(text): the bytes of the text in UTF-8.
RECURSIVE encode(_)
encode(text) ==
    IF text = <<>> THEN <<>>
    ELSE (CASE Head(text) = "eacute" -> <<"c3", "a9">>
            [] Head(text) = "fffd"   -> <<"ef", "bf", "bd">>
            [] OTHER                 -> <<Head(text)>>)
         \o encode(Tail(text))

\* TextDecoder.decode(value, {stream: true}), bytes being the bytes the
\* decoder kept from the chunk before followed by value: the characters
\* decoded, and the bytes of an unfinished character, which the decoder keeps
\* for the next call. A byte that fits no character becomes "fffd".
RECURSIVE decode(_)
decode(bytes) ==
    IF bytes = <<>> THEN [text |-> <<>>, carry |-> <<>>]
    ELSE IF Head(bytes) = "c3" /\ Len(bytes) = 1
         THEN [text |-> <<>>, carry |-> bytes]
    ELSE IF Head(bytes) = "c3" /\ bytes[2] = "a9"
         THEN LET rest == decode(Tail(Tail(bytes)))
              IN  [text |-> <<"eacute">> \o rest.text, carry |-> rest.carry]
    ELSE LET rest == decode(Tail(bytes))
         IN  [text  |-> <<IF Head(bytes) \in {"c3", "a9"}
                          THEN "fffd" ELSE Head(bytes)>> \o rest.text,
              carry |-> rest.carry]

\* The tool names of a response.
ToolNames == {<<"b">>, <<"eacute">>}

\* "name" <separator> "<value>", as a JSON serialiser writes a member.
Member(separator, value) ==
    <<"q", "name", "q">> \o separator \o <<"q">> \o value \o <<"q">>

\* What a response text is made of: a tool_use block's name with the mcp_
\* prefix the request got, a name without it, and other text.
Fragments ==
    {Member(separator, <<"mcp_">> \o name) :
        separator \in {<<"colon">>, <<"colon", "sp">>}, name \in ToolNames}
    \cup {Member(<<"colon">>, name) : name \in ToolNames}
    \cup {<<"b">>}

\* The response texts: up to MaxFragments fragments in a row.
RECURSIVE TextsOf(_)
TextsOf(k) ==
    IF k = 0 THEN {<<>>}
    ELSE {t \o f : t \in TextsOf(k - 1), f \in Fragments}

ResponseTexts == UNION {TextsOf(k) : k \in 1..MaxFragments}

\* The sets of up to k places, each after one of the first n - 1 bytes, at
\* which a body of n bytes is cut.
RECURSIVE CutSets(_, _)
CutSets(n, k) ==
    IF k = 0 THEN {{}}
    ELSE LET fewer == CutSets(n, k - 1)
         IN  fewer \cup {cuts \cup {c} : cuts \in fewer, c \in 1..(n - 1)}

\* The chunks reader.read() delivers of the bytes from position from on, the
\* body being cut after every position in cuts.
RECURSIVE chunksFrom(_, _, _)
chunksFrom(bytes, cuts, from) ==
    IF from > Len(bytes) THEN <<>>
    ELSE LET later == {c \in cuts : c >= from}
             to    == IF later = {} THEN Len(bytes)
                      ELSE CHOOSE c \in later : \A d \in later : c <= d
         IN  <<SubSeq(bytes, from, to)>> \o chunksFrom(bytes, cuts, to + 1)

\* The chunks of a sequence of chunks, one after the other.
RECURSIVE concat(_)
concat(chunks) ==
    IF chunks = <<>> THEN <<>> ELSE Head(chunks) \o concat(Tail(chunks))

\* wrapStreamingResponse(response): the upstream body arrives cut at up to
\* MaxCuts places; nothing is decoded or enqueued yet.
InitStream ==
    /\ sel = NoSel
    /\ now = 0
    /\ file = NoFile
    /\ mgr = NoManager
    /\ last = NoOp
    /\ ops = 0
    /\ flights = NoFlights
    /\ \E text \in ResponseTexts :
         \E cuts \in CutSets(Len(encode(text)), MaxCuts) :
            stream = [text   |-> text,
                      body   |-> chunksFrom(encode(text), cuts, 1),
                      carry  |-> <<>>,
                      out    |-> <<>>,
                      closed |-> FALSE]
    /\ disk = NoDisk
    /\ writers = IdleWriters
    /\ reader = IdleReader
    /\ io = NoCall
    /\ pass = NoPass

\* pull(controller): read a chunk; when the body is done close the stream,
\* else decode the chunk, apply transformStreamChunk and enqueue the result.
pull ==
    /\ stream.text # <<>>
    /\ ~stream.closed
    /\ IF stream.body = <<>>
       THEN stream' = [stream EXCEPT !.closed = TRUE]
       ELSE LET decoded == decode(stream.carry \o Head(stream.body))
                text    == transformStreamChunk(decoded.text)
            IN  stream' = [stream EXCEPT !.body  = Tail(@),
                                         !.carry = decoded.carry,
                                         !.out   = Append(@, encode(text))]
    /\ UNCHANGED <<sel, now, file, mgr, last, ops, disk, writers, reader, io, pass,
                   flights>>

NextStream == pull

SpecStream == InitStream /\ [][NextStream]_vars

(***************************************************************************)
(* Properties of a streamed response                                       *)
(***************************************************************************)

\* C40: when the stream is closed, the chunks it has enqueued, one after the
\* other, are transformStreamChunk of the whole response text, however the
\* body was cut into chunks.
C40_ChunkingIsInvisible ==
    stream.closed =>
        concat(stream.out) = encode(transformStreamChunk(stream.text))

====
